---- MODULE Spec2Model ----
(***************************************************************************)
(* CarapaceOS warm pool (src/lib/warm-pool.js) with the pool-resize route  *)
(* of the control server (src/lib/control-server.js).                      *)
(*                                                                         *)
(* One WarmPool instance.  node.js runs every handler to its next await,   *)
(* so each action below is the synchronous run of one handler or of one    *)
(* continuation.  The runner (CarapaceRunner) is the pool's collaborator:  *)
(* its boot() settles later with success or failure; the pool never        *)
(* cancels a boot.  Calls into the pool come from tasks of the event loop  *)
(* (HTTP handlers, timers, callers resuming from an await): a continuation *)
(* that waits on nothing but already-settled promises runs before the next *)
(* of them and belongs to the step that queued it.                         *)
(*                                                                         *)
(* The runners themselves (src/lib/agent-runner.js, kept in                *)
(* src/unnamed/part_005) are followed in RunnerSpec: the port allocator,   *)
(* boot() through its readiness probes, run() and shutdown(), against a    *)
(* hypervisor child that may exit at any moment.                           *)
(* ShutdownSpec follows one runner that is shut down repeatedly.           *)
(*                                                                         *)
(* The control server in front of the pool (its registry of checked-out   *)
(* VMs, its counters, its handlers and its stop()) is followed in          *)
(* ServerSpec, on top of the pool's own methods.                           *)
(*                                                                         *)
(* Further specifications follow one concern each: HostSpec the hypervisor *)
(* children of the pool's runners, OnceSpec a pool that is started once,   *)
(* ReadySpec the two phases of boot()'s readiness wait against a clock,    *)
(* IsoSpec the layout of the seed image (src/lib/seed-iso.js), GrowSpec    *)
(* the pool after a resize that grows it, and RaceSpec the run and         *)
(* pipeline handlers of the server suspended at their awaits.              *)
(***************************************************************************)
EXTENDS Integers, Sequences, FiniteSets, TLC

\* ------------------------------------------------------------ bounds
MaxSlots == 3        \* slot ids ever minted (_slotCounter)
MaxWaiters == 2      \* acquire() calls that had to queue
MaxStarts == 2       \* start() calls that found the pool not started
MaxAge == 2          \* ms a warm slot is followed for (slot.warmAge)
MaxRunners == 2      \* CarapaceRunner objects followed through their life
MaxPorts == 101      \* CarapaceRunner objects constructed (_portCounter)
MaxShutdowns == 2    \* shutdown() calls on one CarapaceRunner
MaxRequests == 3     \* requests to the control server that are counted
MaxCommands == 2     \* commands of one pipeline request
MaxFiles == 44       \* files given to buildISO
MaxInflight == 1     \* run and pipeline requests under way at a time

\* ------------------------------------------------------------ program constants
RESIZE_LIMIT == 16   \* POST /pool/resize accepts 0..16
DEFAULT_SSH_PORT_BASE == 12200
PORT_SPAN == 100     \* allocPort: _portCounter++ % 100
MAX_BODY_BYTES == 1048576
DEFAULT_SSH_TIMEOUT == 120   \* seconds boot() waits for the port by default
RETRY_MS == 2000             \* waitForPort: setTimeout(attempt, 2000)
SSH_ATTEMPTS == 20           \* _waitForSSH(maxAttempts = 20)
SECTOR_SIZE == 2048
DATA_START_SECTOR == 21
DOT_LBA == 20                \* root dir sector

\* sizes POST /pool/resize is called with
ResizeSizes == {0, RESIZE_LIMIT}
\* opts.maxWarmAgeMs: 0 stands for null/absent (falsy: no age limit)
WarmAges == {0, 1}
\* opts.size and opts.maxSize the pool is constructed with
TargetSizes == {1, 2}
CapSizes == {2}
\* lengths of the runs of runners that are constructed and dropped unbooted
IdleRuns == {99}
\* the ephemeral key of a boot: the pre-built seed and key next to the base
\* image, or a freshly generated pair
Keys == {"prebuilt", "fresh"}

VARIABLES
    targetSize,    \* this.targetSize
    maxSize,       \* this.maxSize
    maxWarmAgeMs,  \* this.maxWarmAgeMs (0 = null)
    slots,         \* every PoolSlot ever created, by id; inReg = id is a key of this._slots
    boots,         \* ids of the slots whose runner.boot() has not settled yet
    started,       \* this._started
    stopping,      \* this._stopping
    stopPc,        \* "idle", or "awaiting": a stop() call is at its await
    waiters,       \* this._waiters: tickets of the queued acquire() calls, head first
    tickets,       \* number of acquire() calls that have queued so far
    refillTimer,   \* this._refillTimer is pending
    retryTimers,   \* number of pending 5 s retry timers
    startWaits,    \* pending start() calls (listeners of _waitForFirstWarm)
    nStarts,       \* number of start() calls that found the pool not started
    serving,       \* a start() has resolved: ControlServer.start went on to listen
    quiet,         \* environment: the quiet period has begun (liveness only)
    portCounter,   \* _portCounter of agent-runner.js
    allocated,     \* history: the ports allocPort() returned, in order
    runners,       \* the CarapaceRunner objects that are followed, by number
    hypervisors,   \* the hypervisor child of the runner of each slot, by slot id
    files,         \* the files buildISO is given
    image,         \* <<the image buildISO wrote>>, or <<>> before it has run
    activeVMs,     \* this.activeVMs of the ControlServer: vmId -> the runner (by slot id)
    metrics,       \* this._metrics (the five counters)
    srvPc,         \* where ControlServer.stop() is: "idle", "shutdowns", "pool", "stopped"
    issued,        \* history: the vmIds POST /vms/acquire has returned
    downed,        \* history: the runners shutdown() was invoked on
    inflight,      \* the run and pipeline handlers suspended at an await
    dispatched     \* history: the commands that went to a guest

vars == <<targetSize, maxSize, maxWarmAgeMs, slots, boots, started, stopping, stopPc,
          waiters, tickets, refillTimer, retryTimers, startWaits,
          nStarts, serving, quiet, portCounter, allocated, runners,
          hypervisors, files, image, activeVMs, metrics, srvPc, issued, downed,
          inflight, dispatched>>

poolVars == <<targetSize, maxSize, maxWarmAgeMs, slots, boots, started, stopping,
              stopPc, waiters, tickets, refillTimer, retryTimers, startWaits,
              nStarts, serving, quiet>>

seedVars == <<files, image>>

runnerVars == <<portCounter, allocated, runners, hypervisors, seedVars>>

serverVars == <<activeVMs, metrics, srvPc, issued, downed, inflight, dispatched>>

\* SlotState
BOOTING == "booting"
WARM == "warm"
ACTIVE == "active"
DEAD == "dead"

Min(a, b) == IF a < b THEN a ELSE b

\* new PoolSlot(id), with slot.runner set and runner.boot() started.
\* The runner of slot i is identified with i.
\*   warmAge  : Date.now() - slot.warmAt while the slot is warm (the getter
\*              warmAge); the clock itself is not kept, only these differences
\*   error    : slot.error is set
\*   handouts : history, the number of acquire() calls that returned the runner
PoolSlot == [state |-> BOOTING, inReg |-> TRUE,
             warmAge |-> 0, error |-> FALSE, handouts |-> 0]

\* The mutable pool, as one record the methods below transform.  Its field
\* events collects, in order, what one run of a method does that its callers
\* and the runners can see: shutdown() calls, promises settled, values returned.
Pool == [targetSize |-> targetSize, maxSize |-> maxSize, slots |-> slots,
         boots |-> boots,
         started |-> started, stopping |-> stopping, waiters |-> waiters,
         tickets |-> tickets,
         refillTimer |-> refillTimer, retryTimers |-> retryTimers,
         startWaits |-> startWaits, nStarts |-> nStarts, serving |-> serving,
         events |-> <<>>]

Commit(P) ==
    /\ targetSize' = P.targetSize
    /\ maxSize' = P.maxSize
    /\ slots' = P.slots
    /\ boots' = P.boots
    /\ started' = P.started
    /\ stopping' = P.stopping
    /\ waiters' = P.waiters
    /\ tickets' = P.tickets
    /\ refillTimer' = P.refillTimer
    /\ retryTimers' = P.retryTimers
    /\ startWaits' = P.startWaits
    /\ nStarts' = P.nStarts
    /\ serving' = P.serving

Emit(P, e) == [P EXCEPT !.events = Append(@, e)]

\* the events of one kind among those a run of a method left
EventsOf(P, type) == SelectSeq(P.events, LAMBDA e : e.type = type)

\* ------------------------------------------------------------ WarmPool internals

\* keys of this._slots, in insertion order (ids ascend)
Registry(P) == {i \in 1..Len(P.slots) : P.slots[i].inReg}

InState(P, st) == {i \in Registry(P) : P.slots[i].state = st}

stats(P) ==
    [warm |-> Cardinality(InState(P, WARM)),
     booting |-> Cardinality(InState(P, BOOTING)),
     active |-> Cardinality(InState(P, ACTIVE)),
     total |-> Cardinality({i \in Registry(P) : P.slots[i].state # DEAD}),
     waiters |-> Len(P.waiters)]

\* runner.shutdown() is invoked on runner i; awaited tells whether the caller
\* awaits the promise before it goes on
shutdown(P, i, awaited) ==
    Emit(P, [type |-> "shutdown", runner |-> i, awaited |-> awaited])

\* this._slots.delete(slot.id).  No code path reads the warmAt of a slot that
\* has left the registry, so its age is not followed any further.
deleteSlot(P, i) ==
    [P EXCEPT !.slots[i].inReg = FALSE, !.slots[i].warmAge = 0]

\* _scheduleRefill without its _stopping test
scheduleRefillAlways(P) == [P EXCEPT !.refillTimer = TRUE]

scheduleRefill(P) ==
    IF P.stopping THEN P ELSE [P EXCEPT !.refillTimer = TRUE]

\* _evictStale without the shutdown of the runner
evictStaleNoShutdown(P, i) ==
    scheduleRefill(deleteSlot([P EXCEPT !.slots[i].state = DEAD], i))

evictStale(P, i) ==
    LET P1 == [P EXCEPT !.slots[i].state = DEAD]
        P2 == shutdown(P1, i, FALSE)
        P3 == deleteSlot(P2, i)
    IN scheduleRefill(P3)

\* slot.warmAge > this.maxWarmAgeMs, guarded by this.maxWarmAgeMs being truthy
IsStale(P, i) ==
    /\ maxWarmAgeMs # 0
    /\ P.slots[i].warmAge > maxWarmAgeMs

\* the loop of _findWarmSlot keeping the warm slot of largest warmAt (the
\* newest: > for < in the comparison of warmAt)
RECURSIVE ScanWarmNewest(_, _, _)
ScanWarmNewest(P, i, oldest) ==
    IF i > Len(P.slots) THEN [pool |-> P, slot |-> oldest]
    ELSE IF ~P.slots[i].inReg \/ P.slots[i].state # WARM
         THEN ScanWarmNewest(P, i + 1, oldest)
    ELSE IF IsStale(P, i)
         THEN ScanWarmNewest(evictStale(P, i), i + 1, oldest)
    ELSE IF oldest = 0 \/ P.slots[i].warmAge < P.slots[oldest].warmAge
         THEN ScanWarmNewest(P, i + 1, i)
    ELSE ScanWarmNewest(P, i + 1, oldest)

\* the loop of _findWarmSlot over this._slots.values(): evicts the stale warm
\* slots it meets and keeps the warm slot of smallest warmAt, that is of
\* largest warmAge (the first one met on a tie)
RECURSIVE ScanWarm(_, _, _)
ScanWarm(P, i, oldest) ==
    IF i > Len(P.slots) THEN [pool |-> P, slot |-> oldest]
    ELSE IF ~P.slots[i].inReg \/ P.slots[i].state # WARM
         THEN ScanWarm(P, i + 1, oldest)
    ELSE IF IsStale(P, i)
         THEN ScanWarm(evictStale(P, i), i + 1, oldest)
    ELSE IF oldest = 0 \/ P.slots[i].warmAge > P.slots[oldest].warmAge
         THEN ScanWarm(P, i + 1, i)
    ELSE ScanWarm(P, i + 1, oldest)

findWarmSlot(P) == ScanWarm(P, 1, 0)

\* a CarapaceRunner that no slot of the pool holds
FOREIGN == 0

\* the slot of this._slots whose runner is r, or 0
findSlotByRunner(P, r) ==
    IF r \in Registry(P) THEN r ELSE 0

\* _checkout without its _scheduleRefill
checkoutNoRefill(P, i) ==
    [P EXCEPT !.slots[i].state = ACTIVE,
              !.slots[i].warmAge = 0,
              !.slots[i].handouts = @ + 1]

\* marks the slot active; the caller returns slot.runner, which is i
checkout(P, i) ==
    scheduleRefill([P EXCEPT !.slots[i].state = ACTIVE,
                             !.slots[i].warmAge = 0,
                             !.slots[i].handouts = @ + 1])

\* the synchronous part of _bootSlot: a new slot in the registry, boot() started
bootSlot(P) ==
    [P EXCEPT !.slots = Append(@, PoolSlot),
              !.boots = @ \cup {Len(P.slots) + 1}]

RECURSIVE bootSlots(_, _)
bootSlots(P, n) ==
    IF n <= 0 THEN P ELSE bootSlots(bootSlot(P), n - 1)

\* _refill counting the warm slots only (booting left out of needed)
refillIgnoresBooting(P) ==
    IF P.stopping THEN P
    ELSE LET s == stats(P)
             needed == P.targetSize - s.warm
             canBoot == P.maxSize - s.total
             toStart == Min(needed, canBoot)
         IN IF toStart <= 0 THEN P ELSE bootSlots(P, toStart)

\* _refill without the hard cap (canBoot left out of toStart)
refillNoCap(P) ==
    IF P.stopping THEN P
    ELSE LET s == stats(P)
             needed == P.targetSize - s.warm - s.booting
         IN IF needed <= 0 THEN P ELSE bootSlots(P, needed)

\* _refill without its _stopping test
refillWhileStopping(P) ==
    LET s == stats(P)
        needed == P.targetSize - s.warm - s.booting
        canBoot == P.maxSize - s.total
        toStart == Min(needed, canBoot)
    IN IF toStart <= 0 THEN P ELSE bootSlots(P, toStart)

refill(P) ==
    IF P.stopping THEN P
    ELSE LET s == stats(P)
             needed == P.targetSize - s.warm - s.booting
             canBoot == P.maxSize - s.total
             toStart == Min(needed, canBoot)
         IN IF toStart <= 0 THEN P ELSE bootSlots(P, toStart)

\* waiter.resolve(runner) of the waiter with ticket t (t = 0: acquire() itself
\* returns the runner)
Resolve(P, t, r) ==
    Emit(P, [type |-> "acquired", ticket |-> t, runner |-> r])

\* waiter.reject / throw of acquire()
Reject(P, t, why) ==
    Emit(P, [type |-> "rejected", ticket |-> t, reason |-> why])

\* _serveWaiters taking the waiter that queued last (pop() for shift())
RECURSIVE serveWaitersLifo(_)
serveWaitersLifo(P) ==
    IF Len(P.waiters) = 0 THEN P
    ELSE LET f == findWarmSlot(P)
         IN IF f.slot = 0 THEN f.pool
            ELSE LET n == Len(f.pool.waiters)
                     waiter == f.pool.waiters[n]
                     P1 == [f.pool EXCEPT !.waiters = SubSeq(@, 1, n - 1)]
                     P2 == checkout(P1, f.slot)
                 IN serveWaitersLifo(Resolve(P2, waiter, f.slot))

RECURSIVE serveWaiters(_)
serveWaiters(P) ==
    IF Len(P.waiters) = 0 THEN P
    ELSE LET f == findWarmSlot(P)
         IN IF f.slot = 0 THEN f.pool
            ELSE LET waiter == Head(f.pool.waiters)
                     P1 == [f.pool EXCEPT !.waiters = Tail(@)]
                     P2 == checkout(P1, f.slot)
                 IN serveWaiters(Resolve(P2, waiter, f.slot))

\* a start() promise settles; initial = the slots its refill created
SettleStart(P, w, how) ==
    Emit([P EXCEPT !.serving = @ \/ how = "resolved"],
         [type |-> "start", result |-> how, initial |-> w.initial])

RECURSIVE SettleStarts(_, _)
SettleStarts(P, how) ==
    IF Len(P.startWaits) = 0 THEN P
    ELSE SettleStarts(SettleStart([P EXCEPT !.startWaits = Tail(@)],
                                  Head(P.startWaits), how), how)

\* the listeners _waitForFirstWarm registered on 'slot:warm' and 'slot:error'
onWarm(P) == SettleStarts(P, "resolved")

onError(P) ==
    LET s == stats(P)
    IN IF s.booting = 0 /\ s.warm = 0 THEN SettleStarts(P, "rejected") ELSE P

\* _waitForFirstWarm resolving as soon as a slot is booting
waitForFirstWarmEager(P, w) ==
    LET f == findWarmSlot(P)
    IN IF f.slot # 0 \/ stats(f.pool).booting > 0
       THEN SettleStart(f.pool, w, "resolved")
       ELSE SettleStart(f.pool, w, "rejected")

\* _waitForFirstWarm of a start() call whose refill created the slots of w
waitForFirstWarm(P, w) ==
    LET f == findWarmSlot(P)
    IN IF f.slot # 0 THEN SettleStart(f.pool, w, "resolved")
       ELSE IF stats(f.pool).booting = 0
            THEN SettleStart(f.pool, w, "rejected")
       ELSE [f.pool EXCEPT !.startWaits = Append(@, w)]

\* ------------------------------------------------------------ WarmPool methods

\* start(): returns at once on a started pool; otherwise the initial refill,
\* then _waitForFirstWarm.  (The await between the two yields to no timer or
\* I/O callback.)
start(P) ==
    IF P.started
    THEN Emit(P, [type |-> "start", result |-> "returned", initial |-> {}])
    ELSE LET P1 == [P EXCEPT !.started = TRUE, !.stopping = FALSE,
                             !.nStarts = @ + 1]
             P2 == refill(P1)
         IN waitForFirstWarm(P2,
                [initial |-> (Len(P1.slots) + 1)..Len(P2.slots)])

RECURSIVE RejectWaiters(_)
RejectWaiters(P) ==
    IF Len(P.waiters) = 0 THEN P
    ELSE RejectWaiters(Reject([P EXCEPT !.waiters = Tail(@)],
                              Head(P.waiters), "stopped"))

\* the shutdown loop of stop() passing over the slots that are still booting
RECURSIVE ShutdownReady(_, _)
ShutdownReady(P, i) ==
    IF i > Len(P.slots) THEN P
    ELSE IF P.slots[i].inReg /\ P.slots[i].state \in {WARM, ACTIVE}
         THEN ShutdownReady([shutdown(P, i, TRUE) EXCEPT !.slots[i].state = DEAD],
                            i + 1)
    ELSE ShutdownReady(P, i + 1)

RECURSIVE ShutdownAll(_, _)
ShutdownAll(P, i) ==
    IF i > Len(P.slots) THEN P
    ELSE IF P.slots[i].inReg /\ P.slots[i].state # DEAD
         THEN ShutdownAll([shutdown(P, i, TRUE) EXCEPT !.slots[i].state = DEAD],
                          i + 1)
    ELSE ShutdownAll(P, i + 1)

\* stop() up to its await: flag, clearTimeout, reject the waiters, shut down
stopBegin(P) ==
    LET P1 == [P EXCEPT !.stopping = TRUE, !.refillTimer = FALSE]
    IN ShutdownAll(RejectWaiters(P1), 1)

\* stop() after Promise.allSettled: this._slots.clear(), _started = false
stopSettle(P) ==
    Emit([P EXCEPT !.slots = [i \in DOMAIN @ |->
                                 [@[i] EXCEPT !.inReg = FALSE, !.warmAge = 0]],
                   !.started = FALSE],
         [type |-> "stopped"])

\* acquire() without its _stopping test
acquireNoStopTest(P) ==
    IF ~P.started THEN Reject(P, 0, "notStarted")
    ELSE LET f == findWarmSlot(P)
         IN IF f.slot # 0
            THEN Resolve(checkout(f.pool, f.slot), 0, f.slot)
            ELSE LET t == f.pool.tickets + 1
                 IN Emit([f.pool EXCEPT !.waiters = Append(@, t),
                                        !.tickets = t],
                         [type |-> "queued", ticket |-> t])

\* acquire(), up to its return or to the enqueueing of its waiter
acquire(P) ==
    IF ~P.started THEN Reject(P, 0, "notStarted")
    ELSE IF P.stopping THEN Reject(P, 0, "stopping")
    ELSE LET f == findWarmSlot(P)
         IN IF f.slot # 0
            THEN Resolve(checkout(f.pool, f.slot), 0, f.slot)
            ELSE LET t == f.pool.tickets + 1
                 IN Emit([f.pool EXCEPT !.waiters = Append(@, t),
                                        !.tickets = t],
                         [type |-> "queued", ticket |-> t])

\* the timer rejecting without the splice of its waiter
acquireTimeoutKeeps(P, t) == Reject(P, t, "timeout")

\* the timer of the queued acquire() with ticket t fires
acquireTimeout(P, t) ==
    Reject([P EXCEPT !.waiters = SelectSeq(@, LAMBDA w : w # t)],
           t, "timeout")

\* release() that recycles: the slot goes back to warm and stays registered
releaseRecycles(P, r) ==
    LET slot == findSlotByRunner(P, r)
    IN IF slot = 0 THEN shutdown(P, r, TRUE)
       ELSE [P EXCEPT !.slots[slot].state = WARM, !.slots[slot].warmAge = 0]

\* release() that triggers a refill for an unknown runner too
releaseUnknownRefills(P, r) ==
    LET slot == findSlotByRunner(P, r)
    IN IF slot = 0 THEN scheduleRefill(shutdown(P, r, TRUE))
       ELSE LET P1 == [P EXCEPT !.slots[slot].state = DEAD]
                P2 == shutdown(P1, r, FALSE)
                P3 == deleteSlot(P2, slot)
            IN scheduleRefill(P3)

\* release().  this.emit('pool:released') is the notification it sends; the
\* 'log' events of _log are the logging channel and are not followed.
release(P, r) ==
    LET slot == findSlotByRunner(P, r)
    IN IF slot = 0 THEN shutdown(P, r, TRUE)
       ELSE LET P1 == [P EXCEPT !.slots[slot].state = DEAD]
                P2 == shutdown(P1, r, FALSE)
                P3 == Emit(deleteSlot(P2, slot),
                           [type |-> "emit", event |-> "pool:released",
                            slot |-> slot])
            IN scheduleRefill(P3)

\* _bootSlot warming its slot without serving the waiting callers
bootSucceededNoServe(P, i) ==
    LET P0 == [P EXCEPT !.boots = @ \ {i}]
    IN IF P0.stopping
       THEN LET P1 == shutdown(P0, i, TRUE)
            IN deleteSlot([P1 EXCEPT !.slots[i].state = DEAD], i)
       ELSE onWarm([P0 EXCEPT !.slots[i].state = WARM,
                              !.slots[i].warmAge = 0])

\* _bootSlot after `await runner.boot()` returned
bootSucceeded(P, i) ==
    LET P0 == [P EXCEPT !.boots = @ \ {i}]
    IN IF P0.stopping
       THEN LET P1 == shutdown(P0, i, TRUE)
            IN deleteSlot([P1 EXCEPT !.slots[i].state = DEAD], i)
       ELSE LET P1 == [P0 EXCEPT !.slots[i].state = WARM,
                                 !.slots[i].warmAge = 0]
            IN serveWaiters(onWarm(P1))

\* _bootSlot's catch block
bootFailed(P, i) ==
    LET P1 == deleteSlot([P EXCEPT !.boots = @ \ {i},
                                   !.slots[i].state = DEAD,
                                   !.slots[i].error = TRUE], i)
        P2 == onError(P1)
    IN IF P2.stopping THEN P2 ELSE [P2 EXCEPT !.retryTimers = @ + 1]

\* _handlePoolResize discarding the oldest warm slot when it shrinks the pool
handlePoolResizeEvicts(P, size) ==
    LET oldSize == P.targetSize
        P1 == [P EXCEPT !.targetSize = size]
    IN IF size > oldSize THEN refill(P1)
       ELSE IF size < oldSize /\ findWarmSlot(P1).slot # 0
       THEN evictStale(P1, findWarmSlot(P1).slot)
       ELSE P1

\* _handlePoolResize without the refill it triggers when growing
handlePoolResizeNoRefill(P, size) == [P EXCEPT !.targetSize = size]

\* ControlServer._handlePoolResize with a valid body.size
handlePoolResize(P, size) ==
    LET oldSize == P.targetSize
        P1 == [P EXCEPT !.targetSize = size]
    IN IF size > oldSize THEN refill(P1) ELSE P1

\* ------------------------------------------------------------ initial state

\* the objects of the process, as their constructors leave them
Constructed ==
    /\ targetSize \in TargetSizes
    /\ maxSize \in CapSizes
    /\ maxSize >= targetSize
    /\ maxWarmAgeMs \in WarmAges
    /\ slots = <<>>
    /\ boots = {}
    /\ started = FALSE
    /\ stopping = FALSE
    /\ stopPc = "idle"
    /\ waiters = <<>>
    /\ tickets = 0
    /\ refillTimer = FALSE
    /\ retryTimers = 0
    /\ startWaits = <<>>
    /\ nStarts = 0
    /\ serving = FALSE
    /\ quiet = FALSE
    /\ portCounter = 0
    /\ allocated = <<>>
    /\ runners = <<>>
    /\ hypervisors = <<>>
    /\ activeVMs = <<>>
    /\ metrics = [acquireTotal |-> 0, releaseTotal |-> 0, runTotal |-> 0,
                  runErrors |-> 0, acquireErrors |-> 0]
    /\ srvPc = "idle"
    /\ issued = {}
    /\ downed = {}
    /\ inflight = {}
    /\ dispatched = {}

Init ==
    /\ Constructed
    /\ files = <<>>
    /\ image = <<>>

\* ------------------------------------------------------------ actions

Env == <<maxWarmAgeMs, stopPc, quiet, runnerVars, serverVars>>

\* the bounds of the model
Within(P) ==
    /\ Len(P.slots) <= MaxSlots
    /\ P.tickets <= MaxWaiters
    /\ P.nStarts <= MaxStarts

Start ==
    /\ LET P == start(Pool) IN Within(P) /\ Commit(P)
    /\ UNCHANGED Env

\* the 300 s timer of _waitForFirstWarm fires for the j-th pending start()
StartTimeout(j) ==
    /\ LET P == [Pool EXCEPT !.startWaits =
                    [n \in 1..(Len(@) - 1) |-> IF n < j THEN @[n] ELSE @[n + 1]]]
       IN Commit(SettleStart(P, startWaits[j], "rejected"))
    /\ UNCHANGED Env

\* stop().  It returns at once on a stopping pool.  Otherwise it runs to its
\* await; with no runner to shut down the awaited promise is settled already
\* and stop() resumes before any other task runs, so it completes in this step.
Stop ==
    /\ ~quiet
    /\ IF stopping
       THEN Commit(Pool) /\ UNCHANGED stopPc
       ELSE IF EventsOf(stopBegin(Pool), "shutdown") = <<>>
            THEN Commit(stopSettle(stopBegin(Pool))) /\ UNCHANGED stopPc
            ELSE Commit(stopBegin(Pool)) /\ stopPc' = "awaiting"
    /\ UNCHANGED <<maxWarmAgeMs, quiet, runnerVars, serverVars>>

StopSettled ==
    /\ stopPc = "awaiting"
    /\ Commit(stopSettle(Pool))
    /\ stopPc' = "idle"
    /\ UNCHANGED <<maxWarmAgeMs, quiet, runnerVars, serverVars>>

Acquire ==
    /\ ~quiet
    /\ LET P == acquire(Pool) IN Within(P) /\ Commit(P)
    /\ UNCHANGED Env

AcquireTimeout(t) ==
    /\ Commit(acquireTimeout(Pool, t))
    /\ UNCHANGED Env

\* callers pass to release() a runner that acquire() handed out, or a runner
\* the pool never created (FOREIGN)
Release(r) ==
    /\ ~quiet
    /\ IF r = FOREIGN THEN TRUE ELSE slots[r].handouts > 0
    /\ Commit(release(Pool, r))
    /\ UNCHANGED Env

BootSucceeds(i) ==
    /\ i \in boots
    /\ Commit(bootSucceeded(Pool, i))
    /\ UNCHANGED Env

BootFails(i) ==
    /\ ~quiet
    /\ i \in boots
    /\ Commit(bootFailed(Pool, i))
    /\ UNCHANGED Env

RefillTimerFires ==
    /\ refillTimer
    /\ LET P == refill([Pool EXCEPT !.refillTimer = FALSE])
       IN Within(P) /\ Commit(P)
    /\ UNCHANGED Env

RetryTimerFires ==
    /\ retryTimers > 0
    /\ LET P == refill([Pool EXCEPT !.retryTimers = @ - 1])
       IN Within(P) /\ Commit(P)
    /\ UNCHANGED Env

\* the HTTP server exists once pool.start() has resolved (ControlServer.start)
PoolResize(size) ==
    /\ ~quiet
    /\ serving
    /\ LET P == handlePoolResize(Pool, size)
       IN Within(P) /\ Commit(P)
    /\ UNCHANGED Env

\* Date.now() advances by a millisecond: every warm slot of the registry is
\* a millisecond older.
Tick ==
    /\ InState(Pool, WARM) # {}
    /\ \A i \in InState(Pool, WARM) : slots[i].warmAge < MaxAge
    /\ Commit([Pool EXCEPT !.slots =
                  [i \in DOMAIN @ |->
                      IF @[i].inReg /\ @[i].state = WARM
                      THEN [@[i] EXCEPT !.warmAge = @ + 1] ELSE @[i]]])
    /\ UNCHANGED Env

Next ==
    \/ Start
    \/ \E j \in 1..Len(startWaits) : StartTimeout(j)
    \/ Stop
    \/ StopSettled
    \/ Acquire
    \/ \E t \in {waiters[n] : n \in 1..Len(waiters)} : AcquireTimeout(t)
    \/ \E r \in {FOREIGN} \cup (1..Len(slots)) : Release(r)
    \/ \E i \in boots : BootSucceeds(i)
    \/ \E i \in boots : BootFails(i)
    \/ RefillTimerFires
    \/ RetryTimerFires
    \/ \E size \in ResizeSizes : PoolResize(size)
    \/ Tick

Spec == Init /\ [][Next]_vars

\* ------------------------------------------------------------ quiet periods

\* slot ids a quiet period can still mint: the boots the pool is short of, and
\* one replacement for every slot a queued acquire will take
Shortfall(P) ==
    LET s == stats(P)
        short == Min(P.targetSize, P.maxSize - s.active) - s.warm - s.booting
    IN (IF short > 0 THEN short ELSE 0) + Len(P.waiters)

\* The environment falls quiet on a running pool: from here on no acquire,
\* release, resize or stop is called and no boot fails (the actions guarded
\* by ~quiet).  Timers still fire, boots still complete, time still passes.
Quiesce ==
    /\ ~quiet
    /\ started /\ ~stopping
    /\ Len(slots) + Shortfall(Pool) <= MaxSlots
    /\ quiet' = TRUE
    /\ UNCHANGED <<targetSize, maxSize, maxWarmAgeMs, slots, boots, started, stopping,
                   stopPc, waiters, tickets, refillTimer, retryTimers,
                   startWaits, nStarts, serving, runnerVars, serverVars>>

LiveNext == Next \/ Quiesce

\* What the event loop and the runners guarantee, each stated on the variable
\* it settles: a pending refill timer fires (RefillTimerFires) unless stop()
\* clears it, a pending retry timer fires (RetryTimerFires), and a boot() that
\* is under way settles (BootSucceeds, BootFails).
RefillTimerElapses == refillTimer /\ refillTimer' = FALSE

RetryTimerElapses == retryTimers > 0 /\ retryTimers' = retryTimers - 1

BootSettles == \E i \in boots : boots' = boots \ {i}

Fairness ==
    /\ WF_refillTimer(RefillTimerElapses)
    /\ WF_retryTimers(RetryTimerElapses)
    /\ WF_boots(BootSettles)

LiveSpec == Init /\ [][LiveNext]_vars /\ Fairness

\* ------------------------------------------------------------ a single start

\* the one start() call of a pool that is started once and never stopped
FirstStart == nStarts = 0 /\ Start

\* the life of such a pool: its start() settles one way or the other, and
\* callers acquire and release whatever the outcome was
OnceNext ==
    \/ FirstStart
    \/ \E j \in 1..Len(startWaits) : StartTimeout(j)
    \/ Acquire
    \/ \E t \in {waiters[n] : n \in 1..Len(waiters)} : AcquireTimeout(t)
    \/ \E r \in {FOREIGN} \cup (1..Len(slots)) : Release(r)
    \/ \E i \in boots : BootSucceeds(i)
    \/ \E i \in boots : BootFails(i)
    \/ RefillTimerFires
    \/ RetryTimerFires
    \/ Tick

OnceSpec == Init /\ [][OnceNext]_vars

\* ------------------------------------------------------------ failing boots

\* Once _bootSlot's catch block has run, nothing refers to its slot any more:
\* the slot is out of this._slots and its boot() has settled.  Forget drops
\* such slots from the end of the history, so that their ids (which are names
\* only) are minted again.
RECURSIVE Forget(_)
Forget(P) ==
    LET n == Len(P.slots)
    IN IF n > 0 /\ P.slots[n].state = DEAD /\ ~P.slots[n].inReg
                /\ n \notin P.boots /\ P.slots[n].handouts = 0
       THEN Forget([P EXCEPT !.slots = SubSeq(@, 1, n - 1)])
       ELSE P

\* a boot fails, at most MaxSlots retry timers being followed at a time
BootFailsForgotten(i) ==
    /\ i \in boots
    /\ retryTimers < MaxSlots
    /\ Commit(Forget(bootFailed(Pool, i)))
    /\ UNCHANGED Env

\* The pool on a host where no boot succeeds (a missing base image, no
\* hypervisor): it is started, acquires queue and time out, boots fail and
\* retry timers fire.
FailingNext ==
    \/ Start
    \/ \E j \in 1..Len(startWaits) : StartTimeout(j)
    \/ Acquire
    \/ \E t \in {waiters[n] : n \in 1..Len(waiters)} : AcquireTimeout(t)
    \/ \E i \in boots : BootFailsForgotten(i)
    \/ RetryTimerFires

FailingSpec == Init /\ [][FailingNext]_vars /\ Fairness

\* ------------------------------------------------------------ hypervisors

\* The hypervisor children of the runners the pool creates.  boot() runs
\* without an await up to and including spawn(), so the child of a slot is
\* "live" from _bootSlot on; it is "closing" from the call of shutdown()
\* (poweroff, the 3 s grace wait, SIGTERM) and "gone" once shutdown() has
\* completed or the child was never spawned.
LIVE == "live"
CLOSING == "closing"
GONE == "gone"

\* the runners a run of a method called shutdown() on
ShutDownBy(P) ==
    {P.events[n].runner : n \in {m \in 1..Len(P.events) :
                                   P.events[m].type = "shutdown"}}

\* the children after a run of a method that left the pool as P; gone are
\* the slots whose child has gone for good by the end of the run
Hypervisors(P, gone) ==
    [i \in 1..Len(P.slots) |->
        IF i > Len(hypervisors) THEN LIVE
        ELSE IF hypervisors[i] = GONE \/ i \in gone THEN GONE
        ELSE IF i \in ShutDownBy(P) THEN CLOSING
        ELSE hypervisors[i]]

HostStep(P, gone) ==
    /\ Within(P)
    /\ Commit(P)
    /\ hypervisors' = Hypervisors(P, gone)
    /\ downed' = downed \cup ShutDownBy(P)
    /\ UNCHANGED <<maxWarmAgeMs, quiet, portCounter, allocated, runners,
                   seedVars, activeVMs, metrics, srvPc, issued, inflight,
                   dispatched>>

HostStart == HostStep(start(Pool), {}) /\ UNCHANGED stopPc

HostAcquire == HostStep(acquire(Pool), {}) /\ UNCHANGED stopPc

HostRelease(r) ==
    /\ slots[r].handouts > 0
    /\ HostStep(release(Pool, r), {})
    /\ UNCHANGED stopPc

\* on a stopping pool _bootSlot awaits runner.shutdown() before it goes on
HostBootSucceeds(i) ==
    /\ i \in boots
    /\ HostStep(bootSucceeded(Pool, i), IF stopping THEN {i} ELSE {})
    /\ UNCHANGED stopPc

\* boot() rejects: before spawn() (createOverlay throws), or later with the
\* child left running (the port never opens, the probes all fail)
HostBootFails(i, spawned) ==
    /\ i \in boots
    /\ HostStep(bootFailed(Pool, i), IF spawned THEN {} ELSE {i})
    /\ UNCHANGED stopPc

HostRefillTimerFires ==
    /\ refillTimer
    /\ HostStep(refill([Pool EXCEPT !.refillTimer = FALSE]), {})
    /\ UNCHANGED stopPc

HostRetryTimerFires ==
    /\ retryTimers > 0
    /\ HostStep(refill([Pool EXCEPT !.retryTimers = @ - 1]), {})
    /\ UNCHANGED stopPc

HostStop ==
    IF stopping
    THEN HostStep(Pool, {}) /\ UNCHANGED stopPc
    ELSE IF EventsOf(stopBegin(Pool), "shutdown") = <<>>
         THEN HostStep(stopSettle(stopBegin(Pool)), {}) /\ UNCHANGED stopPc
         ELSE HostStep(stopBegin(Pool), {}) /\ stopPc' = "awaiting"

\* Promise.allSettled(shutdownPromises) has settled: the shutdown() of every
\* slot of the registry has completed
HostStopSettled ==
    /\ stopPc = "awaiting"
    /\ HostStep(stopSettle(Pool), Registry(Pool))
    /\ stopPc' = "idle"

\* a shutdown() that nobody awaits completes
ShutdownCompletes(i) ==
    /\ hypervisors[i] = CLOSING
    /\ hypervisors' = [hypervisors EXCEPT ![i] = GONE]
    /\ UNCHANGED <<poolVars, portCounter, allocated, runners, seedVars,
                   serverVars>>

HostNext ==
    \/ HostStart
    \/ HostStop
    \/ HostStopSettled
    \/ HostAcquire
    \/ \E t \in {waiters[n] : n \in 1..Len(waiters)} : AcquireTimeout(t)
    \/ \E r \in 1..Len(slots) : HostRelease(r)
    \/ \E i \in boots : HostBootSucceeds(i)
    \/ \E i \in boots : \E spawned \in BOOLEAN : HostBootFails(i, spawned)
    \/ HostRefillTimerFires
    \/ HostRetryTimerFires
    \/ Tick
    \/ \E i \in 1..Len(hypervisors) : ShutdownCompletes(i)

HostSpec == Init /\ [][HostNext]_vars

\* ------------------------------------------------------------ CarapaceRunner

\* allocPort with the modulus one short
allocPortShort(counter) == DEFAULT_SSH_PORT_BASE + (counter % (PORT_SPAN - 1))

\* allocPort() when _portCounter is counter (the caller increments it)
allocPort(counter) == DEFAULT_SSH_PORT_BASE + (counter % PORT_SPAN)

\* new CarapaceRunner(opts) when _portCounter is counter
\*   pc       : where boot() is: "new" (not called), "waitForPort",
\*              "waitForSSH", "booted" (resolved), "failed" (rejected)
\*   workDir  : this._workDir exists on disk
\*   qemuProc : this._qemuProc is not null
\*   qemu     : the hypervisor child: "none", "running" or "exited"
\*   booted   : this._booted
\*   key      : the key boot() installed
\*   down     : where shutdown() is: "idle" (not called), "closing" (called,
\*              no call has completed), "done" (a call has completed)
\*   grace    : grace[k] is the number of shutdown(k) calls at their awaits
\*              (the poweroff over ssh and the 3 s grace wait)
\*   calls    : history, the number of shutdown() calls so far
\*   lastRun  : history, what the last run() settled with
\*   sshTimeout : this.sshTimeout, in ms
\*   now      : Date.now() - start of waitForPort, in ms
\*   nextTry  : the time of now at which waitForPort makes its next attempt
\*   open     : the forwarded port accepts connections
\*   openedAt : history, <<now>> when the port began to accept connections
\*   connected: history, an attempt of waitForPort has connected
\*   probes   : history, the 'echo SSH_OK' commands _waitForSSH has run
\*   answered : history, one of them had SSH_OK on its standard output
CarapaceRunner(counter) ==
    [sshPort |-> allocPort(counter), pc |-> "new", workDir |-> FALSE,
     qemuProc |-> FALSE, qemu |-> "none", booted |-> FALSE, key |-> "none",
     down |-> "idle", grace |-> [k \in BOOLEAN |-> 0], calls |-> 0,
     lastRun |-> <<>>,
     sshTimeout |-> DEFAULT_SSH_TIMEOUT * 1000, now |-> 0, nextTry |-> 0,
     open |-> FALSE, openedAt |-> <<>>, connected |-> FALSE,
     probes |-> 0, answered |-> FALSE]

Runners == 1..Len(runners)

\* the hypervisors that forward the shell port of runner r to a guest: its
\* own child while it runs, and the child of any other booted runner that
\* was given the same port
Forwarding(r) ==
    {q \in Runners : /\ runners[q].sshPort = runners[r].sshPort
                     /\ runners[q].qemu = "running"
                     /\ q # r => runners[q].booted}

\* the guests among them that accept the key of runner r
Accepting(r) ==
    {q \in Forwarding(r) :
        q # r => runners[q].key = "prebuilt" /\ runners[r].key = "prebuilt"}

\* what the ssh child of sshExec ends with: 'close' with its exit code, 'close'
\* with code null after spawn's timeout killed it, or 'error' when it could
\* not be started.  code is <<c>> for the number c and <<>> for null.
ChildEnds ==
    {[event |-> "close", code |-> <<c>>, killed |-> FALSE] : c \in {0, 1}}
    \cup {[event |-> "close", code |-> <<>>, killed |-> TRUE],
          [event |-> "error", code |-> <<>>, killed |-> FALSE]}

\* sshExec: resolves on 'close' with the code it is given, rejects on 'error'
sshExec(end) ==
    IF end.event = "close"
    THEN [settled |-> "resolved", code |-> end.code]
    ELSE [settled |-> "rejected", code |-> <<>>]

\* run(command): the promise of sshExec, passed on (duration added)
run(end) == sshExec(end)

\* shutdown(keepWorkDir) from `this._booted = false` to its end: the work
\* directory is removed unless it is to be kept (rm -rf, best effort: removing
\* a directory that is gone succeeds).  Yields the runner and how the promise
\* of shutdown() settles.
shutdownTail(R, keepWorkDir, threw) ==
    [runner |-> [R EXCEPT !.booted = FALSE,
                          !.workDir = IF keepWorkDir THEN @ ELSE FALSE,
                          !.down = "done"],
     settled |-> IF threw THEN "rejected" ELSE "resolved"]

\* shutdown with the kill outside its try block: a call that finds the handle
\* cleared by an earlier call throws
shutdownEndsUncaught(R, keepWorkDir) ==
    shutdownTail([R EXCEPT !.qemu = IF @ = "running" THEN "exited" ELSE @,
                           !.qemuProc = FALSE,
                           !.grace[keepWorkDir] = @ - 1],
                 keepWorkDir, ~R.qemuProc)

\* shutdown(keepWorkDir) after its awaits: this._qemuProc.kill('SIGTERM') in a
\* try block (the handle is null when an earlier call has cleared it: the
\* TypeError is caught), this._qemuProc = null, then the tail
shutdownEnds(R, keepWorkDir) ==
    shutdownTail([R EXCEPT !.qemu = IF @ = "running" THEN "exited" ELSE @,
                           !.qemuProc = FALSE,
                           !.grace[keepWorkDir] = @ - 1],
                 keepWorkDir, FALSE)

\* shutdown(keepWorkDir) up to its first await, or to its end when there is
\* no hypervisor handle
shutdownBegins(R, keepWorkDir) ==
    LET R1 == [R EXCEPT !.calls = @ + 1]
    IN IF R.qemuProc
       THEN [runner |-> [R1 EXCEPT !.grace[keepWorkDir] = @ + 1,
                                   !.down = IF @ = "idle" THEN "closing" ELSE @],
             settled |-> "pending"]
       ELSE shutdownTail(R1, keepWorkDir, FALSE)

\* ------------------------------------------------------------ runner actions

SetRunner(r, R) ==
    /\ runners' = [runners EXCEPT ![r] = R]
    /\ UNCHANGED <<portCounter, allocated, hypervisors, seedVars, poolVars, serverVars>>

Construct ==
    /\ Len(runners) < MaxRunners
    /\ portCounter < MaxPorts
    /\ runners' = Append(runners, CarapaceRunner(portCounter))
    /\ allocated' = Append(allocated, allocPort(portCounter))
    /\ portCounter' = portCounter + 1
    /\ UNCHANGED <<hypervisors, seedVars, poolVars, serverVars>>

\* n runners are constructed that are never booted: they hold a port number
\* and nothing else, and are not followed
ConstructIdle(n) ==
    /\ portCounter + n <= MaxPorts
    /\ allocated' = allocated \o [k \in 1..n |-> allocPort(portCounter + k - 1)]
    /\ portCounter' = portCounter + n
    /\ UNCHANGED <<runners, hypervisors, seedVars, poolVars, serverVars>>

\* boot() up to its first await: the work directory, key and seed, the
\* overlay (sh throws when qemu-img fails), the hypervisor child
Boot(r, key, overlay) ==
    /\ runners[r].pc = "new" /\ runners[r].down = "idle"
    /\ IF overlay
       THEN SetRunner(r, [runners[r] EXCEPT !.workDir = TRUE, !.key = key,
                                            !.qemuProc = TRUE,
                                            !.qemu = "running",
                                            !.pc = "waitForPort"])
       ELSE SetRunner(r, [runners[r] EXCEPT !.workDir = TRUE, !.key = key,
                                            !.pc = "failed"])

\* the hypervisor child exits; the 'exit' listener clears _booted
QemuExits(r) ==
    /\ runners[r].qemu = "running"
    /\ SetRunner(r, [runners[r] EXCEPT !.qemu = "exited", !.booted = FALSE])

\* waitForPort: a connection to 127.0.0.1:sshPort succeeds
PortOpens(r) ==
    /\ runners[r].pc = "waitForPort"
    /\ Forwarding(r) # {}
    /\ SetRunner(r, [runners[r] EXCEPT !.pc = "waitForSSH"])

\* waitForPort: the budget elapses before a connection succeeds
PortTimeout(r) ==
    /\ runners[r].pc = "waitForPort"
    /\ SetRunner(r, [runners[r] EXCEPT !.pc = "failed"])

\* _waitForSSH: 'echo SSH_OK' answers; boot() sets _booted and resolves
SshReady(r) ==
    /\ runners[r].pc = "waitForSSH"
    /\ Accepting(r) # {}
    /\ SetRunner(r, [runners[r] EXCEPT !.pc = "booted", !.booted = TRUE])

\* _waitForSSH: none of the 20 attempts answers
SshNever(r) ==
    /\ runners[r].pc = "waitForSSH"
    /\ SetRunner(r, [runners[r] EXCEPT !.pc = "failed"])

\* run() on a runner whose _booted is set, the ssh child ending with end
Run(r, end) ==
    /\ runners[r].booted
    /\ SetRunner(r, [runners[r] EXCEPT !.lastRun = <<[end |-> end,
                                                      run |-> run(end)]>>])

\* a call of shutdown(keepWorkDir), run to its first await
Shutdown(r, keepWorkDir) ==
    /\ runners[r].calls < MaxShutdowns
    /\ SetRunner(r, shutdownBegins(runners[r], keepWorkDir).runner)

\* a call of shutdown(keepWorkDir) resumes after its awaits and runs to its end
ShutdownEnds(r, keepWorkDir) ==
    /\ runners[r].grace[keepWorkDir] > 0
    /\ SetRunner(r, shutdownEnds(runners[r], keepWorkDir).runner)

\* the one shutdown() that the owner of a runner calls when it is done with it
ShutdownOnce(r) ==
    /\ runners[r].calls = 0
    /\ Shutdown(r, FALSE)

RunnerNext ==
    \/ Construct
    \/ \E n \in IdleRuns : ConstructIdle(n)
    \/ \E r \in Runners : \E key \in Keys : \E overlay \in BOOLEAN :
          Boot(r, key, overlay)
    \/ \E r \in Runners : QemuExits(r)
    \/ \E r \in Runners : PortOpens(r)
    \/ \E r \in Runners : PortTimeout(r)
    \/ \E r \in Runners : SshReady(r)
    \/ \E r \in Runners : SshNever(r)
    \/ \E r \in Runners : \E end \in ChildEnds : Run(r, end)
    \/ \E r \in Runners : ShutdownOnce(r)
    \/ \E r \in Runners : ShutdownEnds(r, FALSE)

\* the runners of one process, with no pool around them
RunnerInit == Init /\ targetSize = 1 /\ maxWarmAgeMs = 0

RunnerSpec == RunnerInit /\ [][RunnerNext]_vars

\* ------------------------------------------------------------ readiness

\* opts.sshTimeout, in seconds
SshTimeouts == {1, 2}

\* the closure attempt of waitForPort running at R.now: it resolves when the
\* connection succeeds; on an error it rejects when more than the budget has
\* elapsed, and otherwise tries again RETRY_MS later
attempt(R) ==
    IF R.open /\ R.qemu = "running"
    THEN [R EXCEPT !.connected = TRUE, !.pc = "waitForSSH"]
    ELSE IF R.now > R.sshTimeout
    THEN [R EXCEPT !.pc = "failed"]
    ELSE [R EXCEPT !.nextTry = R.now + RETRY_MS]

\* _waitForSSH giving up one pass late
waitForSSHOneMore(R, ok) ==
    LET R1 == [R EXCEPT !.probes = @ + 1]
    IN IF ok
       THEN [R1 EXCEPT !.answered = TRUE, !.pc = "booted", !.booted = TRUE]
       ELSE IF R1.probes > SSH_ATTEMPTS THEN [R1 EXCEPT !.pc = "failed"]
       ELSE R1

\* one pass of the loop of _waitForSSH, ok telling whether the standard
\* output of 'echo SSH_OK' includes SSH_OK (a probe that throws is caught and
\* counts as one that does not); after the last pass it throws.  When it
\* returns, boot() sets _booted and resolves.
waitForSSH(R, ok) ==
    LET R1 == [R EXCEPT !.probes = @ + 1]
    IN IF ok
       THEN [R1 EXCEPT !.answered = TRUE, !.pc = "booted", !.booted = TRUE]
       ELSE IF R1.probes >= SSH_ATTEMPTS THEN [R1 EXCEPT !.pc = "failed"]
       ELSE R1

\* new CarapaceRunner({ sshTimeout: t })
ConstructWith(t) ==
    /\ runners = <<>>
    /\ runners' = <<[CarapaceRunner(portCounter) EXCEPT !.sshTimeout = t * 1000]>>
    /\ allocated' = Append(allocated, allocPort(portCounter))
    /\ portCounter' = portCounter + 1
    /\ UNCHANGED <<hypervisors, seedVars, poolVars, serverVars>>

\* the guest's port forward begins to accept connections
PortListens(r) ==
    /\ runners[r].pc = "waitForPort"
    /\ runners[r].qemu = "running" /\ ~runners[r].open
    /\ SetRunner(r, [runners[r] EXCEPT !.open = TRUE,
                                       !.openedAt = <<runners[r].now>>])

\* a second passes while waitForPort waits for its retry timer
TimePasses(r) ==
    /\ runners[r].pc = "waitForPort"
    /\ runners[r].now < runners[r].nextTry
    /\ SetRunner(r, [runners[r] EXCEPT !.now = @ + 1000])

Attempt(r) ==
    /\ runners[r].pc = "waitForPort"
    /\ runners[r].now = runners[r].nextTry
    /\ SetRunner(r, attempt(runners[r]))

\* only a running guest behind an open port answers
WaitForSSH(r, ok) ==
    /\ runners[r].pc = "waitForSSH"
    /\ ok => (runners[r].open /\ runners[r].qemu = "running")
    /\ SetRunner(r, waitForSSH(runners[r], ok))

\* boot() of one runner, followed through its two waits
ReadyNext ==
    \/ \E t \in SshTimeouts : ConstructWith(t)
    \/ \E r \in Runners : \E key \in Keys : \E overlay \in BOOLEAN :
          Boot(r, key, overlay)
    \/ \E r \in Runners : QemuExits(r)
    \/ \E r \in Runners : PortListens(r)
    \/ \E r \in Runners : TimePasses(r)
    \/ \E r \in Runners : Attempt(r)
    \/ \E r \in Runners : \E ok \in BOOLEAN : WaitForSSH(r, ok)

ReadySpec == RunnerInit /\ [][ReadyNext]_vars

\* one runner, shut down any number of times at any moment of its life
ConstructOne ==
    /\ runners = <<>>
    /\ Construct

ShutdownNext ==
    \/ ConstructOne
    \/ \E r \in Runners : \E key \in Keys : \E overlay \in BOOLEAN :
          Boot(r, key, overlay)
    \/ \E r \in Runners : QemuExits(r)
    \/ \E r \in Runners : PortOpens(r)
    \/ \E r \in Runners : PortTimeout(r)
    \/ \E r \in Runners : SshReady(r)
    \/ \E r \in Runners : SshNever(r)
    \/ \E r \in Runners : \E keepWorkDir \in BOOLEAN : Shutdown(r, keepWorkDir)
    \/ \E r \in Runners : \E keepWorkDir \in BOOLEAN : ShutdownEnds(r, keepWorkDir)

ShutdownSpec == RunnerInit /\ [][ShutdownNext]_vars

\* the port allocator alone: runners are constructed one after the other
Allocate == ConstructIdle(1)

PortSpec == RunnerInit /\ [][Allocate]_vars

\* ------------------------------------------------------------ seed image

\* buildISO of src/lib/seed-iso.js, followed by the lengths and positions of
\* what it writes.  A file is [nameLen |-> the length of its isoName,
\* length |-> content.length once the content is a Buffer].

\* lengths of the isoName ('META.;1' has 7 bytes, 'META-DATA.;1' has 12)
NameLens == {7, 12}

\* content lengths: empty, within a sector, a sector, more than a sector
ContentLens == {0, 1, SECTOR_SIZE, SECTOR_SIZE + 1}

FileKinds == [nameLen : NameLens, length : ContentLens]

\* the lists of files that are followed: m files of one kind, then files of
\* another, n in all
FileList(n, m, a, b) == [k \in 1..n |-> IF k <= m THEN a ELSE b]

\* the length of padToSector(buf) for a buffer of len bytes
padToSector(len) ==
    LET rem == len % SECTOR_SIZE
    IN IF rem = 0 THEN len ELSE len + (SECTOR_SIZE - rem)

\* the length of dirRecord(name, ..): 33 bytes and the name, made even
dirRecord(nameLen) ==
    LET recLen == 33 + nameLen
    IN IF recLen % 2 # 0 THEN recLen + 1 ELSE recLen

\* Math.ceil(n / SECTOR_SIZE)
Sectors(n) == (n + SECTOR_SIZE - 1) \div SECTOR_SIZE

\* the loop that assigns the LBAs: f.lba = nextSector; nextSector += f.sectors
RECURSIVE AssignLBAs(_, _, _, _)
AssignLBAs(fs, k, nextSector, lbas) ==
    IF k > Len(fs) THEN [lba |-> lbas, totalSectors |-> nextSector]
    ELSE AssignLBAs(fs, k + 1, nextSector + Sectors(fs[k].length),
                    Append(lbas, nextSector))

\* the length of rootDir once the records of the files k.. are appended
RECURSIVE RootDir(_, _, _)
RootDir(fs, k, len) ==
    IF k > Len(fs) THEN len
    ELSE RootDir(fs, k + 1, len + dirRecord(fs[k].nameLen))

\* what buildISO writes
\*   volumeSpaceSize : the volume space size in the primary volume descriptor
\*   rootDirRecord   : the root directory record in the descriptor
\*   records         : the records of the files in the root directory
\*   parts           : the lengths of the buffers it concatenates, in order
buildISO(fs) ==
    LET L == AssignLBAs(fs, 1, DATA_START_SECTOR, <<>>)
        rootDir == RootDir(fs, 1, dirRecord(1) + dirRecord(1))
        rootDirPadded == padToSector(rootDir)
    IN [volumeSpaceSize |-> L.totalSectors,
        rootDirRecord |-> [extent |-> DOT_LBA, dataLength |-> rootDirPadded],
        records |-> [k \in 1..Len(fs) |->
                        [extent |-> L.lba[k], dataLength |-> fs[k].length]],
        parts |-> <<16 * SECTOR_SIZE, SECTOR_SIZE, SECTOR_SIZE,
                    padToSector(10), padToSector(10), rootDirPadded>>
                  \o [k \in 1..Len(fs) |-> padToSector(fs[k].length)]]

\* buildISO(files, outputPath)
BuildISO ==
    /\ image = <<>>
    /\ image' = <<buildISO(files)>>
    /\ UNCHANGED <<files, poolVars, portCounter, allocated, runners,
                   hypervisors, serverVars>>

IsoInit ==
    /\ Constructed /\ targetSize = 1 /\ maxWarmAgeMs = 0
    /\ \E n \in 0..MaxFiles : \E m \in 0..n :
          \E a \in FileKinds : \E b \in FileKinds :
             files = FileList(n, m, a, b)
    /\ image = <<>>

IsoSpec == IsoInit /\ [][BuildISO]_vars

\* ------------------------------------------------------------ ControlServer

\* The control server (src/lib/control-server.js) in front of the pool: the
\* active registry, the five counters, and stop().  A handler is followed
\* from the arrival of its request to its response; what it awaits in between
\* (the body, the command in the guest) is drawn with the request.

\* what randomId() returns: Math.random() is not checked against the ids in use
Ids == {"a", "b"}

\* a JSON body without fields (also what parseBody yields for an empty body)
NoFields == [command |-> <<>>, commands |-> <<>>, stopOnError |-> <<>>,
             size |-> <<>>]

\* HTTP request bodies: the number of bytes sent, whether they parse as JSON,
\* and the fields of the parsed object (<<>> = absent, <<v>> = the value v)
Req(bytes, json, fields) == [bytes |-> bytes, json |-> json, fields |-> fields]

TooLarge(fields) == Req(MAX_BODY_BYTES + 1, TRUE, fields)

\* parseBody: rejects once more than MAX_BODY_BYTES have arrived, resolves {}
\* for an empty body, rejects what JSON.parse does not accept
parseBody(req) ==
    IF req.bytes > MAX_BODY_BYTES
    THEN [settled |-> "rejected", message |-> "Request body too large",
          fields |-> NoFields]
    ELSE IF req.bytes = 0
    THEN [settled |-> "resolved", message |-> "", fields |-> NoFields]
    ELSE IF ~req.json
    THEN [settled |-> "rejected", message |-> "Invalid JSON body",
          fields |-> NoFields]
    ELSE [settled |-> "resolved", message |-> "", fields |-> req.fields]

\* the server, as one record its handlers transform
\*   res : the responses sent during one run of a handler
\*   ran : the commands given to vm.run() during one run of a handler
Server == [activeVMs |-> activeVMs, metrics |-> metrics, srvPc |-> srvPc,
           pool |-> Pool, stopPc |-> stopPc, res |-> <<>>, ran |-> <<>>]

send(S, status, data) ==
    [S EXCEPT !.res = Append(@, [status |-> status, data |-> data])]

err(S, status, message) == send(S, status, [error |-> message])

\* what `await entry.vm.run(command)` meets: run() throws on a runner whose
\* _booted is false, and otherwise ends as its ssh child ends
RunEnds ==
    ChildEnds \cup {[event |-> "notBooted", code |-> <<>>, killed |-> FALSE]}

vmRun(end) ==
    IF end.event = "notBooted"
    THEN [settled |-> "rejected", code |-> <<>>]
    ELSE run(end)

\* the successful branch of _handleAcquire, id being what randomId() returned
acquired(S, vm, id) ==
    LET S1 == [S EXCEPT !.activeVMs =
                  [i \in DOMAIN @ \cup {id} |-> IF i = id THEN [vm |-> vm] ELSE @[i]],
                        !.metrics.acquireTotal = @ + 1]
    IN send(S1, 200, [vmId |-> id])

\* the catch block of _handleAcquire counting the request as an acquisition
acquireFailedCounted(S) ==
    err([S EXCEPT !.metrics.acquireTotal = @ + 1], 503, "Failed to acquire VM")

\* the catch block of _handleAcquire
acquireFailed(S) ==
    err([S EXCEPT !.metrics.acquireErrors = @ + 1], 503, "Failed to acquire VM")

\* _handleAcquire up to its response, or up to `await this.pool.acquire()`
\* when the call had to queue
handleAcquire(S, req, id) ==
    LET body == parseBody(req)
    IN IF body.settled = "rejected" THEN err(S, 400, body.message)
       ELSE LET P == acquire(S.pool)
                e == P.events[Len(P.events)]
                S1 == [S EXCEPT !.pool = P]
            IN IF e.type = "acquired" THEN acquired(S1, e.runner, id)
               ELSE IF e.type = "rejected" THEN acquireFailed(S1)
               ELSE S1

\* the handlers suspended at `await this.pool.acquire()` resume with what the
\* pool settled their promises with, in the order it settled them; ids[t] is
\* what randomId() returns to the handler of ticket t
RECURSIVE Deliver(_, _, _)
Deliver(S, n, ids) ==
    IF n > Len(S.pool.events) THEN S
    ELSE LET e == S.pool.events[n]
         IN IF e.type = "acquired" /\ e.ticket > 0
            THEN Deliver(acquired(S, e.runner, ids[e.ticket]), n + 1, ids)
            ELSE IF e.type = "rejected" /\ e.ticket > 0
            THEN Deliver(acquireFailed(S), n + 1, ids)
            ELSE Deliver(S, n + 1, ids)

\* _handleRun treating a non-zero exit code as a failure of the request
handleRunNonZeroFails(S, id, req, end) ==
    IF id \notin DOMAIN S.activeVMs THEN err(S, 404, "VM not found")
    ELSE LET body == parseBody(req)
         IN IF body.settled = "rejected" THEN err(S, 400, body.message)
            ELSE IF body.fields.command \in {<<>>, <<"">>}
            THEN err(S, 400, "body.command is required")
            ELSE LET result == vmRun(end)
                     S1 == [S EXCEPT !.ran = Append(@, body.fields.command[1])]
                 IN IF result.settled = "resolved" /\ result.code = <<0>>
                    THEN send([S1 EXCEPT !.metrics.runTotal = @ + 1],
                              200, [code |-> result.code])
                    ELSE err([S1 EXCEPT !.metrics.runErrors = @ + 1],
                             500, "Command failed")

\* _handleRun
handleRun(S, id, req, end) ==
    IF id \notin DOMAIN S.activeVMs THEN err(S, 404, "VM not found")
    ELSE LET body == parseBody(req)
         IN IF body.settled = "rejected" THEN err(S, 400, body.message)
            ELSE IF body.fields.command \in {<<>>, <<"">>}
            THEN err(S, 400, "body.command is required")
            ELSE LET result == vmRun(end)
                     S1 == [S EXCEPT !.ran = Append(@, body.fields.command[1])]
                 IN IF result.settled = "resolved"
                    THEN send([S1 EXCEPT !.metrics.runTotal = @ + 1],
                              200, [code |-> result.code])
                    ELSE err([S1 EXCEPT !.metrics.runErrors = @ + 1],
                             500, "Command failed")

\* the loop of _handlePipeline going on after a command that failed
RECURSIVE pipelineLoopOn(_, _, _, _, _, _)
pipelineLoopOn(S, commands, stopOnError, ends, k, results) ==
    IF k > Len(commands)
    THEN send(S, 200, [results |-> results, stopped |-> FALSE])
    ELSE LET command == commands[k]
             result == vmRun(ends[k])
             S1 == [S EXCEPT !.ran = Append(@, command)]
             S2 == IF result.settled = "resolved"
                   THEN [S1 EXCEPT !.metrics.runTotal = @ + 1]
                   ELSE [S1 EXCEPT !.metrics.runErrors = @ + 1]
             rs == Append(results,
                          [command |-> command,
                           code |-> IF result.settled = "resolved"
                                    THEN result.code ELSE <<-1>>,
                           error |-> result.settled # "resolved"])
         IN pipelineLoopOn(S2, commands, stopOnError, ends, k + 1, rs)

\* the loop of _handlePipeline from its k-th command on; ends[k] is how the
\* k-th command ends if it is run
RECURSIVE pipelineLoop(_, _, _, _, _, _)
pipelineLoop(S, commands, stopOnError, ends, k, results) ==
    IF k > Len(commands)
    THEN send(S, 200, [results |-> results, stopped |-> FALSE])
    ELSE LET command == commands[k]
             result == vmRun(ends[k])
             S1 == [S EXCEPT !.ran = Append(@, command)]
         IN IF result.settled = "resolved"
            THEN LET S2 == [S1 EXCEPT !.metrics.runTotal = @ + 1]
                     rs == Append(results, [command |-> command,
                                            code |-> result.code,
                                            error |-> FALSE])
                 IN IF result.code # <<0>> /\ stopOnError
                    THEN send(S2, 200, [results |-> rs, stopped |-> TRUE,
                                        stoppedAt |-> command])
                    ELSE pipelineLoop(S2, commands, stopOnError, ends, k + 1, rs)
            ELSE LET S2 == [S1 EXCEPT !.metrics.runErrors = @ + 1]
                     rs == Append(results, [command |-> command,
                                            code |-> <<-1>>,
                                            error |-> TRUE])
                 IN IF stopOnError
                    THEN send(S2, 200, [results |-> rs, stopped |-> TRUE,
                                        stoppedAt |-> command])
                    ELSE pipelineLoop(S2, commands, stopOnError, ends, k + 1, rs)

\* _handlePipeline.  body.commands is [array |-> Array.isArray, items |-> ..];
\* stopOnError defaults to true when the field is absent.
handlePipeline(S, id, req, ends) ==
    IF id \notin DOMAIN S.activeVMs THEN err(S, 404, "VM not found")
    ELSE LET body == parseBody(req)
         IN IF body.settled = "rejected" THEN err(S, 400, body.message)
            ELSE IF \/ body.fields.commands = <<>>
                    \/ ~body.fields.commands[1].array
                    \/ Len(body.fields.commands[1].items) = 0
            THEN err(S, 400, "body.commands must be a non-empty array of strings")
            ELSE LET stopOnError == IF body.fields.stopOnError = <<>> THEN TRUE
                                    ELSE body.fields.stopOnError[1]
                 IN pipelineLoop(S, body.fields.commands[1].items, stopOnError,
                                 ends, 1, <<>>)

\* _handleRelease.  pool.release() does not reject (shutdown errors are
\* caught), so the catch block is not entered.
handleRelease(S, id) ==
    IF id \notin DOMAIN S.activeVMs THEN err(S, 404, "VM not found")
    ELSE LET entry == S.activeVMs[id]
             S1 == [S EXCEPT !.activeVMs = [i \in DOMAIN @ \ {id} |-> @[i]],
                             !.pool = release(@, entry.vm),
                             !.metrics.releaseTotal = @ + 1]
         IN send(S1, 200, [vmId |-> id])

\* _handlePoolResize without the test of the range
handleResizeAnySize(S, req) ==
    LET body == parseBody(req)
    IN IF body.settled = "rejected" THEN err(S, 400, body.message)
       ELSE IF body.fields.size = <<>> \/ ~body.fields.size[1].number
       THEN err(S, 400, "body.size must be a number between 0 and 16")
       ELSE send([S EXCEPT !.pool = handlePoolResize(@, body.fields.size[1].value)],
                 200, [newSize |-> body.fields.size[1].value])

\* _handlePoolResize.  body.size is [number |-> typeof size === 'number',
\* value |-> ..].
handleResize(S, req) ==
    LET body == parseBody(req)
    IN IF body.settled = "rejected" THEN err(S, 400, body.message)
       ELSE IF \/ body.fields.size = <<>>
               \/ ~body.fields.size[1].number
               \/ body.fields.size[1].value < 0
               \/ body.fields.size[1].value > RESIZE_LIMIT
       THEN err(S, 400, "body.size must be a number between 0 and 16")
       ELSE send([S EXCEPT !.pool = handlePoolResize(@, body.fields.size[1].value)],
                 200, [newSize |-> body.fields.size[1].value])

\* vm.shutdown() on every runner of a set, in ascending order
RECURSIVE ShutdownVMs(_, _)
ShutdownVMs(P, vms) ==
    IF vms = {} THEN P
    ELSE LET vm == CHOOSE v \in vms : \A w \in vms : v <= w
         IN ShutdownVMs(shutdown(P, vm, TRUE), vms \ {vm})

\* stop() after `await this.pool.stop()`: server.close(), "Stopped."
serverStopClose(S) == [S EXCEPT !.srvPc = "stopped"]

\* stop() from this.activeVMs.clear() on: pool.stop() runs to its await, and
\* through it when it has no runner to wait for
serverStopPool(S) ==
    LET S1 == [S EXCEPT !.activeVMs = <<>>]
    IN IF S1.pool.stopping THEN serverStopClose(S1)
       ELSE LET P == stopBegin(S1.pool)
            IN IF Len(EventsOf(P, "shutdown")) = Len(EventsOf(S1.pool, "shutdown"))
               THEN serverStopClose([S1 EXCEPT !.pool = stopSettle(P)])
               ELSE [S1 EXCEPT !.pool = P, !.stopPc = "awaiting",
                               !.srvPc = "pool"]

\* stop() that does not wait for the shutdowns of the active runners
serverStopNoWait(S) ==
    LET vms == {S.activeVMs[i].vm : i \in DOMAIN S.activeVMs}
    IN serverStopPool([S EXCEPT !.pool = ShutdownVMs(@, vms)])

\* stop() up to `await Promise.all(shutdowns)`, and through it when no runner
\* is active
serverStop(S) ==
    LET vms == {S.activeVMs[i].vm : i \in DOMAIN S.activeVMs}
        S1 == [S EXCEPT !.pool = ShutdownVMs(@, vms), !.srvPc = "shutdowns"]
    IN IF vms = {} THEN serverStopPool(S1) ELSE S1

\* stop() after pool.stop() resumed from its await and returned
serverStopPoolDone(S) ==
    serverStopClose([S EXCEPT !.pool = stopSettle(@), !.stopPc = "idle"])

\* ------------------------------------------------------------ server actions

\* the vmIds the responses of a run carry
IssuedBy(S) ==
    {S.res[n].data.vmId : n \in {m \in 1..Len(S.res) :
        S.res[m].status = 200 /\ "vmId" \in DOMAIN S.res[m].data}}

\* the runners a run invoked shutdown() on
DownedBy(S) ==
    LET downs == EventsOf(S.pool, "shutdown")
    IN {downs[n].runner : n \in 1..Len(downs)}

\* what randomId() may return to the handlers of the queued acquire requests
IdChoices == [1..MaxWaiters -> Ids]

\* the run of a handler takes effect, the handlers that waited for the pool
\* resuming in its wake
CommitServer(S) ==
    \E D \in {Deliver(S, 1, ids) : ids \in IdChoices} :
       /\ Within(D.pool)
       /\ Commit(D.pool)
       /\ activeVMs' = D.activeVMs
       /\ metrics' = D.metrics
       /\ srvPc' = D.srvPc
       /\ stopPc' = D.stopPc
       /\ issued' = issued \cup IssuedBy(D)
       /\ downed' = downed \cup DownedBy(D)
       /\ UNCHANGED <<maxWarmAgeMs, quiet, runnerVars, inflight, dispatched>>

\* the listener accepts requests from listen() to close()
Listening == serving /\ srvPc # "stopped"

\* requests followed: the counters stay below this many
Handled == metrics.acquireTotal + metrics.releaseTotal + metrics.runTotal
           + metrics.runErrors + metrics.acquireErrors

\* the ids requests name: those randomId() can return, and one it never does
RequestIds == Ids \cup {"none"}

AcquireReqs ==
    {Req(0, TRUE, NoFields), Req(9, FALSE, NoFields), TooLarge(NoFields),
     Req(MAX_BODY_BYTES, TRUE, NoFields)}

RunFields == {[NoFields EXCEPT !.command = c] : c \in {<<>>, <<"">>, <<"ls">>}}

RunReqs ==
    {Req(0, TRUE, NoFields), Req(9, FALSE, NoFields)}
    \cup {Req(9, TRUE, f) : f \in RunFields}
    \cup {TooLarge([NoFields EXCEPT !.command = <<"ls">>])}

\* command lists name their commands 1, 2, ..
CommandLists ==
    {[array |-> FALSE, items |-> <<>>]}
    \cup {[array |-> TRUE, items |-> [k \in 1..n |-> k]] : n \in 0..MaxCommands}

PipelineFields ==
    {NoFields}
    \cup {[NoFields EXCEPT !.commands = <<c>>, !.stopOnError = s] :
            c \in CommandLists, s \in {<<>>, <<TRUE>>, <<FALSE>>}}

PipelineReqs ==
    {Req(0, TRUE, NoFields), Req(9, FALSE, NoFields)}
    \cup {Req(9, TRUE, f) : f \in PipelineFields}
    \cup {TooLarge([NoFields EXCEPT
                        !.commands = <<[array |-> TRUE, items |-> <<1>>]>>])}

\* how the commands of a pipeline request end, one after the other (a request
\* that is turned down runs none)
EndsFor(req) ==
    LET body == parseBody(req)
        n == IF body.fields.commands = <<>> THEN 0
             ELSE Len(body.fields.commands[1].items)
    IN [1..n -> RunEnds]

ResizeFields ==
    {NoFields, [NoFields EXCEPT !.size = <<[number |-> FALSE, value |-> 0]>>]}
    \cup {[NoFields EXCEPT !.size = <<[number |-> TRUE, value |-> v]>>] :
            v \in {-1, 0, 1, RESIZE_LIMIT + 1}}

ResizeReqs ==
    {Req(9, FALSE, NoFields)}
    \cup {Req(9, TRUE, f) : f \in ResizeFields}
    \cup {TooLarge([NoFields EXCEPT !.size = <<[number |-> TRUE, value |-> 1]>>])}

\* ControlServer.start(): pool.start(); the listener follows once it resolves
ServerStart ==
    /\ nStarts = 0
    /\ CommitServer([Server EXCEPT !.pool = start(@)])

HandleAcquire(req, id) ==
    /\ Listening /\ Handled < MaxRequests
    /\ CommitServer(handleAcquire(Server, req, id))

HandleRun(id, req, end) ==
    /\ Listening /\ Handled < MaxRequests
    /\ CommitServer(handleRun(Server, id, req, end))

HandlePipeline(id, req, ends) ==
    /\ Listening /\ Handled < MaxRequests
    /\ CommitServer(handlePipeline(Server, id, req, ends))

HandleRelease(id) ==
    /\ Listening /\ Handled < MaxRequests
    /\ CommitServer(handleRelease(Server, id))

HandleResize(req) ==
    /\ Listening
    /\ CommitServer(handleResize(Server, req))

\* a boot of the pool succeeds: queued acquire requests may be served
PoolBootSucceeds(i) ==
    CommitServer([Server EXCEPT !.pool = bootSucceeded(@, i)])

\* the timer of a queued acquire request fires
PoolAcquireTimeout(t) ==
    CommitServer([Server EXCEPT !.pool = acquireTimeout(@, t)])

\* ControlServer.stop() is called (SIGINT, SIGTERM, or the embedding program)
ServerStop ==
    /\ serving /\ srvPc = "idle"
    /\ CommitServer(serverStop(Server))

\* the shutdowns of the active runners have all settled
ServerStopShutdownsDone ==
    /\ srvPc = "shutdowns"
    /\ CommitServer(serverStopPool(Server))

\* the shutdowns pool.stop() awaits have all settled
ServerStopPoolDone ==
    /\ srvPc = "pool"
    /\ CommitServer(serverStopPoolDone(Server))

ServerNext ==
    \/ ServerStart
    \/ \E req \in AcquireReqs : \E id \in Ids : HandleAcquire(req, id)
    \/ \E id \in RequestIds : \E req \in RunReqs : \E end \in RunEnds :
          HandleRun(id, req, end)
    \/ \E id \in RequestIds : \E req \in PipelineReqs :
          \E ends \in EndsFor(req) : HandlePipeline(id, req, ends)
    \/ \E id \in RequestIds : HandleRelease(id)
    \/ \E req \in ResizeReqs : HandleResize(req)
    \/ \E i \in boots : PoolBootSucceeds(i)
    \/ \E i \in boots : BootFails(i)
    \/ \E t \in {waiters[n] : n \in 1..Len(waiters)} : PoolAcquireTimeout(t)
    \/ RefillTimerFires
    \/ RetryTimerFires
    \/ ServerStop
    \/ ServerStopShutdownsDone
    \/ ServerStopPoolDone

\* new ControlServer({ image, poolSize: 1 })
ServerInit == Init /\ targetSize = 1 /\ maxWarmAgeMs = 0

ServerSpec == ServerInit /\ [][ServerNext]_vars

\* ------------------------------------------------------------ requests under way

\* _handleRun and _handlePipeline look their entry up, then await the body,
\* then await every vm.run(): other handlers run at each of these awaits.
\* A suspended handler is
\*   [kind |-> "run" or "pipeline", id, vm |-> entry.vm (the entry it took
\*    from the registry when it began), at |-> "body" or "run",
\*    released |-> whether _handleRelease had given the runner back when the
\*    vm.run() under way was called, left |-> the commands not yet run,
\*    stopOnError]

\* _handleRelease has deleted the entry the handler h holds and handed its
\* runner to pool.release(), which shuts it down
Released(h) ==
    h.vm \in downed

\* the handler is entered: the entry exists (otherwise the handler answers
\* 404 at once), and the body is awaited
RequestArrives(kind, id) ==
    /\ Listening /\ Handled < MaxRequests
    /\ Cardinality(inflight) < MaxInflight
    /\ id \in DOMAIN activeVMs
    /\ inflight' = inflight \cup
          {[kind |-> kind, id |-> id, vm |-> activeVMs[id].vm, at |-> "body",
            released |-> FALSE, left |-> 0, stopOnError |-> TRUE]}
    /\ UNCHANGED <<poolVars, runnerVars, activeVMs, metrics, srvPc, issued,
                   downed, dispatched>>

\* the commands a body asks for, 0 when the handler answers 400
Asked(h, req) ==
    LET body == parseBody(req)
    IN IF body.settled = "rejected" THEN 0
       ELSE IF h.kind = "run"
       THEN (IF body.fields.command \in {<<>>, <<"">>} THEN 0 ELSE 1)
       ELSE IF body.fields.commands = <<>> \/ ~body.fields.commands[1].array
       THEN 0
       ELSE Len(body.fields.commands[1].items)

\* parseBody settles: the handler answers 400, or calls entry.vm.run() with
\* its (first) command
BodyArrives(h, req) ==
    /\ h \in inflight /\ h.at = "body"
    /\ LET body == parseBody(req)
           n == Asked(h, req)
       IN inflight' =
            IF n = 0 THEN inflight \ {h}
            ELSE (inflight \ {h}) \cup
                 {[h EXCEPT !.at = "run", !.released = Released(h),
                            !.left = n - 1,
                            !.stopOnError =
                                IF body.fields.stopOnError = <<>> THEN TRUE
                                ELSE body.fields.stopOnError[1]]}
    /\ UNCHANGED <<poolVars, runnerVars, activeVMs, metrics, srvPc, issued,
                   downed, dispatched>>

\* the vm.run() a handler awaits settles: the counters, and the response or
\* the next command of the pipeline.  run() throws before it sends anything
\* when the runner is no longer booted; otherwise the command went to the
\* guest.
CommandEnds(h, end) ==
    /\ h \in inflight /\ h.at = "run"
    /\ LET result == vmRun(end)
           stop == \/ h.left = 0
                   \/ h.stopOnError /\ result.settled = "rejected"
                   \/ h.stopOnError /\ result.code # <<0>>
       IN /\ metrics' = IF result.settled = "resolved"
                        THEN [metrics EXCEPT !.runTotal = @ + 1]
                        ELSE [metrics EXCEPT !.runErrors = @ + 1]
          /\ dispatched' =
                IF end.event = "notBooted" THEN dispatched
                ELSE dispatched \cup {[vm |-> h.vm, released |-> h.released]}
          /\ inflight' =
                IF stop THEN inflight \ {h}
                ELSE (inflight \ {h}) \cup
                     {[h EXCEPT !.released = Released(h), !.left = @ - 1]}
    /\ UNCHANGED <<poolVars, runnerVars, activeVMs, srvPc, issued, downed>>

\* the server with requests that take time: VMs are acquired and released
\* while run and pipeline requests are under way
RaceNext ==
    \/ ServerStart
    \/ \E req \in AcquireReqs : \E id \in Ids : HandleAcquire(req, id)
    \/ \E id \in RequestIds : HandleRelease(id)
    \/ \E i \in boots : PoolBootSucceeds(i)
    \/ \E t \in {waiters[n] : n \in 1..Len(waiters)} : PoolAcquireTimeout(t)
    \/ RefillTimerFires
    \/ \E kind \in {"run", "pipeline"} : \E id \in Ids : RequestArrives(kind, id)
    \/ \E h \in inflight :
          \E req \in (IF h.kind = "run" THEN RunReqs ELSE PipelineReqs) :
             BodyArrives(h, req)
    \/ \E h \in inflight : \E end \in RunEnds : CommandEnds(h, end)

RaceSpec == ServerInit /\ [][RaceNext]_vars

\* ------------------------------------------------------------ growing the pool

\* the sizes a running pool is asked to grow to
GrowSizes == {1, 2, RESIZE_LIMIT}

SizeReq(v) ==
    Req(9, TRUE, [NoFields EXCEPT !.size = <<[number |-> TRUE, value |-> v]>>])

GrowReqs == {SizeReq(v) : v \in GrowSizes}

SizeOf(req) == req.fields.size[1].value

\* POST /pool/resize with a size above the target reaches a running pool, and
\* it is the last call: the quiet period begins with it (no acquire, release,
\* resize or stop follows and no boot fails).
Grow(req) ==
    /\ ~quiet
    /\ serving
    /\ started /\ ~stopping
    /\ SizeOf(req) > targetSize
    /\ LET P == handleResize(Server, req).pool
       IN /\ Len(P.slots) + Shortfall(P) <= MaxSlots
          /\ Commit(P)
    /\ quiet' = TRUE
    /\ UNCHANGED <<maxWarmAgeMs, stopPc, runnerVars, serverVars>>

GrowNext ==
    \/ Next
    \/ \E req \in GrowReqs : Grow(req)

GrowSpec == Init /\ [][GrowNext]_vars /\ Fairness

\* ------------------------------------------------------------ properties

\* tickets of the queued acquire() calls a run resolved, in order
Served(P) ==
    LET a == SelectSeq(EventsOf(P, "acquired"), LAMBDA e : e.ticket # 0)
    IN [n \in 1..Len(a) |-> a[n].ticket]

Queue == {waiters[n] : n \in 1..Len(waiters)}

Slots == 1..Len(slots)

WarmPlusBooting == stats(Pool).warm + stats(Pool).booting

\* C1  No recycling: a runner is returned by at most one acquire (directly or
\* through a queued waiter), and a slot whose runner has been returned is
\* active or dead ever after: it is never warm (or booting) again, released
\* or not.
NoRecycling ==
    \A i \in Slots :
        /\ slots[i].handouts <= 1
        /\ slots[i].handouts = 1 => slots[i].state \in {ACTIVE, DEAD}

\* a runner was acquired and released, and another runner was acquired
NoRecyclingWitness ==
    \E i, j \in Slots :
        /\ i # j
        /\ slots[i].handouts = 1 /\ slots[i].state = DEAD /\ ~slots[i].inReg
        /\ slots[j].handouts = 1 /\ slots[j].state = ACTIVE
        /\ ~stopping

\* C2  Hard cap: in every reachable state the registry slots that are warm,
\* booting or active number at most maxSize, whatever target a resize set.
HardCap ==
    LET s == stats(Pool)
    IN s.warm + s.booting + s.active <= maxSize

\* the pool is full at the cap while its target was resized above the cap and
\* a runner is checked out
HardCapWitness ==
    /\ targetSize > maxSize
    /\ stats(Pool).total = maxSize
    /\ stats(Pool).active >= 1
    /\ stats(Pool).booting >= 1

\* C3  Waiter FIFO: the queue holds the waiting acquire calls in the order
\* they queued, and a slot that turns warm resolves a prefix of the queue, in
\* queue order, the rest staying queued in order; when waiters are queued the
\* slot that warms in a running pool goes to the first of them, one waiter per
\* warming.
WaiterFifo ==
    /\ \A m, n \in 1..Len(waiters) : m < n => waiters[m] < waiters[n]
    /\ \A i \in boots :
          LET Q == bootSucceeded(Pool, i)
              k == Len(Served(Q))
          IN /\ k <= Len(waiters)
             /\ Served(Q) = SubSeq(waiters, 1, k)
             /\ Q.waiters = SubSeq(waiters, k + 1, Len(waiters))
             /\ (waiters # <<>> /\ ~stopping /\ slots[i].inReg) =>
                    /\ k = 1
                    /\ EventsOf(Q, "acquired") =
                         <<[type |-> "acquired", ticket |-> Head(waiters),
                            runner |-> i]>>

\* two acquire calls are queued and a booting slot is about to turn warm in a
\* running pool: it goes to the first of the two
WaiterFifoWitness ==
    /\ Len(waiters) = 2
    /\ \E i \in Slots :
          /\ i \in boots /\ slots[i].inReg /\ ~stopping
          /\ Served(bootSucceeded(Pool, i)) = <<waiters[1]>>
          /\ bootSucceeded(Pool, i).waiters = <<waiters[2]>>

\* C4  Acquire timeout: when the timer of a queued acquire fires, that acquire
\* is rejected with the timeout error and its waiter leaves the queue in the
\* same step, no slot being touched; a waiter that has left the queue never
\* returns to it; and a slot that turns warm is checked out only to waiters
\* that are in the queue, so never to an expired one.
AcquireTimeoutExpires ==
    [][/\ \A t \in 1..tickets :
            /\ t \in Queue =>
                  LET Q == acquireTimeout(Pool, t)
                  IN /\ Q.waiters = SelectSeq(waiters, LAMBDA w : w # t)
                     /\ Len(Q.waiters) = Len(waiters) - 1
                     /\ Q.events = <<[type |-> "rejected", ticket |-> t,
                                      reason |-> "timeout"]>>
                     /\ Q.slots = slots
            /\ t \notin Queue => t \notin Queue'
       /\ \A i \in boots :
             \A n \in 1..Len(Served(bootSucceeded(Pool, i))) :
                 Served(bootSucceeded(Pool, i))[n] \in Queue
      ]_vars

\* the only acquire that queued has timed out (the pool was never stopped and
\* no runner was ever handed out), and a slot turned warm afterwards: it stays
\* warm in the pool
AcquireTimeoutWitness ==
    /\ tickets = 1
    /\ waiters = <<>>
    /\ nStarts = 1 /\ started /\ ~stopping
    /\ \A i \in Slots : slots[i].handouts = 0
    /\ \E i \in Slots : slots[i].inReg /\ slots[i].state = WARM

\* C5  Slot state machine: a slot's state changes only along booting-warm,
\* booting-dead, warm-active, warm-dead and active-dead; a dead slot stays
\* dead, and a slot that has left the registry never re-enters it.
SlotTransitions ==
    {<<BOOTING, WARM>>, <<BOOTING, DEAD>>, <<WARM, ACTIVE>>, <<WARM, DEAD>>,
     <<ACTIVE, DEAD>>}

\* One run of a handler may assign a slot's state more than once (a slot that
\* warms while an acquire is queued goes booting-warm-active within
\* _bootSlot): the state changes of a step are the paths along SlotTransitions.
SlotStates == {BOOTING, WARM, ACTIVE, DEAD}

SlotPaths ==
    SlotTransitions \cup
    {<<a, c>> \in SlotStates \X SlotStates :
        \E b \in SlotStates : <<a, b>> \in SlotTransitions
                                /\ <<b, c>> \in SlotTransitions}

SlotStateMachine ==
    [][\A i \in Slots :
          /\ slots'[i].state # slots[i].state =>
                 <<slots[i].state, slots'[i].state>> \in SlotPaths
          /\ slots[i].state = DEAD => slots'[i].state = DEAD
          /\ ~slots[i].inReg => ~slots'[i].inReg
      ]_vars

\* What does hold of C5: the only other transition is dead-warm, taken by a
\* slot outside the registry whose boot() outlived a stop() and a new start();
\* such a slot stays outside the registry.
SlotStateMachineButRevival ==
    [][\A i \in Slots :
          /\ slots'[i].state # slots[i].state =>
                \/ <<slots[i].state, slots'[i].state>> \in SlotPaths
                \/ /\ slots[i].state = DEAD /\ slots'[i].state = WARM
                   /\ i \in boots /\ ~slots[i].inReg /\ ~stopping
          /\ ~slots[i].inReg => ~slots'[i].inReg
      ]_vars

\* C6  stop(): the stop() call that finds the pool not stopping rejects every
\* queued acquire with the pool-stopped error, in queue order, invokes
\* shutdown once on the runner of every registry slot that is not dead
\* (booting, warm or active) and marks those slots dead; nothing queues while
\* the pool is stopping; and when stop() completes the registry and the queue
\* are empty.
StopDrains ==
    /\ ~stopping =>
          LET Q == stopBegin(Pool)
              live == {i \in Registry(Pool) : slots[i].state # DEAD}
              downs == EventsOf(Q, "shutdown")
          IN /\ Q.stopping /\ ~Q.refillTimer
             /\ Q.waiters = <<>>
             /\ EventsOf(Q, "rejected") =
                  [n \in 1..Len(waiters) |->
                      [type |-> "rejected", ticket |-> waiters[n],
                       reason |-> "stopped"]]
             /\ {downs[n].runner : n \in 1..Len(downs)} = live
             /\ Len(downs) = Cardinality(live)
             /\ \A i \in Registry(Pool) : Q.slots[i].state = DEAD
    /\ stopping => waiters = <<>>
    /\ stopPc = "awaiting" =>
          LET Q == stopSettle(Pool)
          IN Registry(Q) = {} /\ Q.waiters = <<>> /\ ~Q.started

\* a running pool with a queued acquire, a booting slot and an active slot:
\* stop() rejects the one and shuts down the two
StopDrainsWitness ==
    /\ started /\ ~stopping
    /\ waiters # <<>>
    /\ InState(Pool, BOOTING) # {}
    /\ InState(Pool, ACTIVE) # {}
    /\ Len(EventsOf(stopBegin(Pool), "shutdown")) = 2
    /\ Len(EventsOf(stopBegin(Pool), "rejected")) = Len(waiters)

\* C7 as stated: release() of a runner owned by a registry slot marks the slot
\* dead, removes it from the registry in the same step, invokes the runner's
\* shutdown once without awaiting it, and schedules a refill.
ReleaseSchedulesRefill ==
    \A r \in Slots : (slots[r].handouts > 0 /\ slots[r].inReg) =>
        LET Q == release(Pool, r)
        IN /\ Q.slots[r].state = DEAD
           /\ r \notin Registry(Q)
           /\ stats(Q).total = Cardinality({i \in Registry(Pool) \ {r} :
                                               slots[i].state # DEAD})
           /\ EventsOf(Q, "shutdown") =
                <<[type |-> "shutdown", runner |-> r, awaited |-> FALSE]>>
           /\ Q.refillTimer

\* C7  release() of a runner owned by a registry slot marks the slot dead,
\* removes it from the registry in the same step, invokes the runner's
\* shutdown once without awaiting it, and schedules a refill unless the pool
\* is stopping: then no refill is scheduled.
ReleaseDestroys ==
    \A r \in Slots : (slots[r].handouts > 0 /\ slots[r].inReg) =>
        LET Q == release(Pool, r)
        IN /\ Q.slots[r].state = DEAD
           /\ r \notin Registry(Q)
           /\ stats(Q).total = Cardinality({i \in Registry(Pool) \ {r} :
                                               slots[i].state # DEAD})
           /\ EventsOf(Q, "shutdown") =
                <<[type |-> "shutdown", runner |-> r, awaited |-> FALSE]>>
           /\ Q.refillTimer = ~stopping

\* stop() is at its await and a caller is about to release a runner whose
\* slot is still in the registry
ReleaseDestroysWitness ==
    /\ stopPc = "awaiting"
    /\ \E r \in Slots :
          /\ slots[r].handouts > 0 /\ slots[r].inReg
          /\ ~release(Pool, r).refillTimer
          /\ r \notin Registry(release(Pool, r))

\* C8 as stated: once no acquire, release, resize or stop occurs any more and
\* every boot succeeds, the pool eventually reaches booting = 0 and
\* warm = min(targetSize, maxSize - active).
Converged ==
    LET s == stats(Pool)
    IN s.booting = 0 /\ s.warm = Min(targetSize, maxSize - s.active)

RefillConverges == quiet ~> Converged

\* in a quiet period no timer waits on a bound of the model: what Fairness
\* asks for can always be done
QuietTimersCanFire ==
    quiet =>
        /\ refillTimer => ENABLED RefillTimerFires
        /\ retryTimers > 0 => ENABLED RetryTimerFires

\* C8  Refill convergence: once no acquire, release, resize or stop occurs any
\* more and every boot succeeds, a running pool eventually reaches booting = 0
\* with warm >= min(targetSize, maxSize - active); and it reaches
\* warm = min(targetSize, maxSize - active) when warm + booting does not exceed
\* the target, that is unless a resize has lowered the target below the slots
\* the pool already holds: the surplus warm slots are kept.
RefillConvergesUnlessShrunk ==
    /\ quiet ~> (stats(Pool).booting = 0
                 /\ stats(Pool).warm >= Min(targetSize,
                                            maxSize - stats(Pool).active))
    /\ (quiet /\ WarmPlusBooting <= targetSize) ~> Converged
    /\ []QuietTimersCanFire

\* a quiet pool that has converged with a runner checked out and every slot
\* id of the model used: its last slots were booted by refills
RefillConvergesWitness ==
    /\ quiet
    /\ Converged
    /\ stats(Pool).active = 1
    /\ stats(Pool).warm = 1
    /\ Len(slots) = MaxSlots
    /\ ~refillTimer /\ retryTimers = 0

\* C9  Steady state: warm + booting is at most the target size at
\* construction, and every step that leaves the target size unchanged keeps
\* warm + booting <= targetSize; so it holds in every state of a pool whose
\* target is never changed.
SteadyBound ==
    /\ WarmPlusBooting <= targetSize
    /\ [][(targetSize' = targetSize /\ WarmPlusBooting <= targetSize)
             => WarmPlusBooting' <= targetSize']_vars

\* no resize can have happened (the server is not listening), a boot has
\* failed, its retry timer has booted a replacement and the pool is at target
SteadyBoundWitness ==
    /\ ~serving
    /\ \E i \in Slots : slots[i].error
    /\ Len(slots) > targetSize
    /\ WarmPlusBooting = targetSize
    /\ stats(Pool).booting >= 1

\* the start() promises a run settled, and how
StartEvent(w, how) == [type |-> "start", result |-> how, initial |-> w.initial]

Settled(P, how) ==
    SelectSeq(EventsOf(P, "start"), LAMBDA e : e.result = how)

\* C10 as stated: the first start() to resolve (the step that sets serving)
\* resolves in a step in which a slot has reached warm, and the boots its
\* initial refill started have not all failed; a start() that finds the pool
\* not started does not resolve at once; a start() on a started pool starts
\* no boot.
StartAsStated ==
    [][/\ (~serving /\ serving') =>
             /\ \E i \in boots : /\ i \notin boots'
                                 /\ slots'[i].state \in {WARM, ACTIVE}
             /\ \A n \in 1..Len(startWaits) :
                    \E k \in startWaits[n].initial : ~slots[k].error
       /\ ~started => Settled(start(Pool), "resolved") = <<>>
       /\ started => start(Pool).slots = slots /\ start(Pool).boots = boots
      ]_vars

\* C10  start(): a start() that finds the pool not started never resolves at
\* once; it rejects at once when its refill started no boot and waits
\* otherwise.  A waiting start() resolves in the step in which a boot of the
\* pool - of the initial refill, of a retry or of an earlier start - succeeds
\* on a pool that is not stopping, the slot turning warm in that step; it is
\* rejected in the step in which a boot fails and leaves no registry slot
\* booting or warm, whichever boots failed before, or by its 300 s timer; no
\* other step settles it.  A start() on a started pool returns at once and
\* starts no boot.
StartSettles ==
    [][/\ started =>
             LET Q == start(Pool)
             IN /\ Q.events = <<StartEvent([initial |-> {}], "returned")>>
                /\ Q.slots = slots /\ Q.boots = boots
                /\ Q.startWaits = startWaits
       /\ ~started =>
             LET Q == start(Pool)
                 w == [initial |-> (Len(slots) + 1)..Len(Q.slots)]
             IN /\ Settled(Q, "resolved") = <<>>
                /\ IF stats(Q).booting = 0
                   THEN /\ EventsOf(Q, "start") = <<StartEvent(w, "rejected")>>
                        /\ Q.startWaits = startWaits
                   ELSE /\ EventsOf(Q, "start") = <<>>
                        /\ Q.startWaits = Append(startWaits, w)
       /\ \A i \in boots :
             LET Q == bootSucceeded(Pool, i)
             IN IF stopping
                THEN EventsOf(Q, "start") = <<>> /\ Q.startWaits = startWaits
                ELSE /\ Q.slots[i].state \in {WARM, ACTIVE}
                     /\ Q.startWaits = <<>>
                     /\ EventsOf(Q, "start") =
                          [n \in 1..Len(startWaits) |->
                              StartEvent(startWaits[n], "resolved")]
       /\ \A i \in boots :
             LET Q == bootFailed(Pool, i)
             IN IF stats(Q).booting = 0 /\ stats(Q).warm = 0
                THEN /\ Q.startWaits = <<>>
                     /\ EventsOf(Q, "start") =
                          [n \in 1..Len(startWaits) |->
                              StartEvent(startWaits[n], "rejected")]
                ELSE EventsOf(Q, "start") = <<>> /\ Q.startWaits = startWaits
       /\ startWaits' # startWaits =>
             \/ nStarts' = nStarts + 1
             \/ \E i \in boots : boots' = boots \ {i}
             \/ /\ Len(startWaits') = Len(startWaits) - 1
                /\ slots' = slots /\ serving' = serving
       /\ (~serving /\ serving') =>
             \E i \in boots : /\ i \notin boots'
                              /\ slots'[i].state \in {WARM, ACTIVE}
      ]_vars

\* both boots of the initial refill have failed, the retry timer of the first
\* failure has booted a third slot, and its boot is about to succeed: the
\* waiting start() resolves
StartSettlesWitness ==
    /\ startWaits = <<[initial |-> 1..2]>>
    /\ slots[1].error /\ slots[2].error
    /\ 3 \in boots /\ slots[3].inReg /\ ~stopping
    /\ EventsOf(bootSucceeded(Pool, 3), "start") =
          <<StartEvent([initial |-> 1..2], "resolved")>>

\* what acquire() leaves alone when it throws
AcquireRejected(Q, why) ==
    /\ Q.events = <<[type |-> "rejected", ticket |-> 0, reason |-> why]>>
    /\ Q.waiters = waiters /\ Q.tickets = tickets
    /\ Q.slots = slots /\ Q.boots = boots
    /\ Q.refillTimer = refillTimer /\ Q.retryTimers = retryTimers

\* C11 as stated: an acquire invoked while the pool is stopping or after it
\* has stopped (_stopping stays set from stop() to the next start()) is
\* rejected with the pool-stopped error, and it neither enqueues a waiter nor
\* checks out a slot nor schedules a refill.
AcquireStoppedError ==
    stopping => \E why \in {"stopping", "stopped"} :
                    AcquireRejected(acquire(Pool), why)

\* C11  An acquire invoked while stop() is under way (begun, not completed) is
\* rejected with the pool-stopped error 'WarmPool is stopping'; an acquire
\* invoked after stop() has completed is rejected with the not-started error;
\* either way it neither enqueues a waiter nor checks out a slot nor
\* schedules a refill.
AcquireWhenStopped ==
    stopping =>
        AcquireRejected(acquire(Pool),
                        IF started THEN "stopping" ELSE "notStarted")

\* stop() is at its await on a pool where an acquire had queued
AcquireWhenStoppedWitness ==
    /\ stopPc = "awaiting" /\ started /\ stopping
    /\ tickets >= 1
    /\ AcquireRejected(acquire(Pool), "stopping")

\* the warm slots of the registry that are not stale, and those that are
NonStaleWarm == {i \in InState(Pool, WARM) : ~IsStale(Pool, i)}

StaleWarm == {i \in InState(Pool, WARM) :
                 maxWarmAgeMs # 0 /\ slots[i].warmAge > maxWarmAgeMs}

\* acquire() returns at once the runner of slot i, which it moves to active
AcquireReturns(Q, i) ==
    /\ EventsOf(Q, "acquired") =
          <<[type |-> "acquired", ticket |-> 0, runner |-> i]>>
    /\ EventsOf(Q, "queued") = <<>> /\ EventsOf(Q, "rejected") = <<>>
    /\ Q.waiters = waiters
    /\ Q.slots[i].state = ACTIVE /\ Q.slots[i].inReg
    /\ \A j \in NonStaleWarm :
          /\ slots[i].warmAge >= slots[j].warmAge
          /\ j < i => slots[i].warmAge > slots[j].warmAge

\* C12 as stated: when at least one non-stale warm slot exists, acquire
\* returns at once the runner of the oldest warm slot, moves exactly that slot
\* to active and leaves the state of every other slot unchanged.
OldestWarmOnly ==
    NonStaleWarm # {} =>
        LET Q == acquire(Pool)
        IN \E i \in NonStaleWarm :
              /\ AcquireReturns(Q, i)
              /\ \A j \in Slots \ {i} : Q.slots[j].state = slots[j].state

\* C12  When at least one non-stale warm slot exists, acquire returns at once
\* the runner of the non-stale warm slot with the smallest warm-transition
\* time, moves that slot to active, and leaves every other slot unchanged
\* except the stale warm slots of the registry: these are marked dead and
\* removed from the registry by the same scan.
OldestWarmFirst ==
    NonStaleWarm # {} =>
        LET Q == acquire(Pool)
        IN \E i \in NonStaleWarm :
              /\ AcquireReturns(Q, i)
              /\ \A j \in Slots \ {i} :
                    IF j \in StaleWarm
                    THEN Q.slots[j].state = DEAD /\ ~Q.slots[j].inReg
                    ELSE Q.slots[j] = slots[j]

\* two warm slots of different ages, neither stale: acquire takes the older,
\* which is not the first of the registry
OldestWarmFirstWitness ==
    \E i, j \in NonStaleWarm :
        /\ i < j
        /\ slots[j].warmAge > slots[i].warmAge
        /\ AcquireReturns(acquire(Pool), j)

\* the scans of one run of a handler: the runners it returned were not stale
\* when the run began, and every stale warm slot of the registry is dead, out
\* of the registry, shut down once (not awaited), with a refill scheduled
ScanEvicts(Q, fresh) ==
    /\ \A n \in 1..Len(EventsOf(Q, "acquired")) :
          LET r == EventsOf(Q, "acquired")[n].runner
          IN r \in fresh \/ r \notin StaleWarm
    /\ \A i \in StaleWarm :
          /\ Q.slots[i].state = DEAD
          /\ i \notin Registry(Q)
          /\ Q.slots[i].handouts = slots[i].handouts
          /\ SelectSeq(EventsOf(Q, "shutdown"), LAMBDA e : e.runner = i) =
                <<[type |-> "shutdown", runner |-> i, awaited |-> FALSE]>>
          /\ Q.refillTimer

\* C13  Staleness eviction: with maxWarmAgeMs configured, neither acquire
\* itself nor the serving of a queued acquire by a slot that turns warm ever
\* returns a runner whose warm age exceeded maxWarmAgeMs when it was selected;
\* every stale warm slot of the registry met by such a scan is marked dead,
\* removed from the registry, has its runner shut down (not awaited), and a
\* refill is scheduled.
StaleEvicted ==
    /\ (started /\ ~stopping) => ScanEvicts(acquire(Pool), {})
    /\ \A i \in boots :
          (~stopping /\ waiters # <<>>) =>
              ScanEvicts(bootSucceeded(Pool, i), {i})
    /\ ~started => ScanEvicts(start(Pool), {})

\* a stale warm slot and a fresh one: acquire evicts the first and returns the
\* second
StaleEvictedWitness ==
    /\ started /\ ~stopping /\ ~refillTimer
    /\ \E i \in StaleWarm : \E j \in NonStaleWarm :
          /\ EventsOf(acquire(Pool), "shutdown") =
                <<[type |-> "shutdown", runner |-> i, awaited |-> FALSE]>>
          /\ EventsOf(acquire(Pool), "acquired") =
                <<[type |-> "acquired", ticket |-> 0, runner |-> j]>>

\* runners no registry slot owns that a caller may pass to release()
Unowned == {FOREIGN} \cup {r \in Slots : slots[r].handouts > 0 /\ ~slots[r].inReg}

RetriesEnd ==
    /\ [](\A i \in boots :
             LET Q == bootFailed(Pool, i)
             IN /\ Q.slots[i].state = DEAD /\ Q.slots[i].error
                /\ ~stopping => Q.retryTimers = retryTimers + 1)
    /\ <>[](boots = {})

\* runners that are constructed and not yet shut down
Live == {r \in Runners : runners[r].down # "done"}

\* C16  The shell port is unique within the process: at every moment, no two
\* runners that are both live (constructed and not yet shut down) hold the
\* same shell port, whatever constructions and shutdowns came before.
PortsUnique ==
    \A q, r \in Live : q # r => runners[q].sshPort # runners[r].sshPort

\* C17  Port uniqueness at small scale: any run of up to 100 runners
\* constructed consecutively in one process receives pairwise distinct shell
\* ports, each in the range 12200 to 12299.
PortsDistinctSmallScale ==
    /\ Len(allocated) = portCounter
    /\ \A i \in 1..Len(allocated) : allocated[i] \in 12200..12299
    /\ \A i, j \in 1..Len(allocated) :
          (i < j /\ j - i < 100) => allocated[i] # allocated[j]

\* 101 runners have been constructed: the runs of 100 that start at the first
\* and at the second of them, the second wrapping around to 12200
PortsDistinctWitness ==
    /\ Len(allocated) = 101
    /\ allocated[1] = 12200 /\ allocated[100] = 12299 /\ allocated[101] = 12200

\* C18  run() on a booted runner returns a normal result carrying the guest's
\* exit code whenever the remote command ran to completion, whatever the
\* code; when the transport fails instead (the ssh child is killed because the
\* time budget expired, or it cannot be started) run() signals an error and
\* returns no result.
RunSurfacesTransport ==
    \A r \in Runners : \A n \in 1..Len(runners[r].lastRun) :
        LET l == runners[r].lastRun[n]
        IN IF l.end.event = "close" /\ ~l.end.killed
           THEN l.run.settled = "resolved" /\ l.run.code = l.end.code
           ELSE l.run.settled = "rejected"

\* C19  boot is all-or-nothing: whenever boot() fails (overlay creation fails,
\* the port never opens within the budget, or the readiness probe never
\* succeeds), no hypervisor child of that runner is left running and its work
\* directory no longer exists.
BootAllOrNothing ==
    \A r \in Runners :
        runners[r].pc = "failed" =>
            runners[r].qemu # "running" /\ ~runners[r].workDir

\* C20  If the hypervisor child exits before readiness has been established,
\* boot fails: boot() never completes with booted = true for a runner whose
\* hypervisor process has already exited.
ExitedNeverBoots ==
    [][\A r \in Runners :
          (runners[r].pc # "booted" /\ runners'[r].pc = "booted") =>
              runners'[r].qemu = "running" /\ runners[r].qemu = "running"
      ]_vars

\* what a completed shutdown(keepWorkDir) leaves of runner R
ShutDown(R, keepWorkDir) ==
    /\ ~R.booted
    /\ ~R.qemuProc /\ R.qemu # "running"
    /\ ~keepWorkDir => ~R.workDir

\* a shutdown(keepWorkDir) that runs on R after an earlier call has completed
\* changes nothing but the work directory it was told not to keep
SameAfter(R, Q, keepWorkDir) ==
    R.down = "done" =>
        /\ Q.booted = R.booted /\ Q.qemuProc = R.qemuProc /\ Q.qemu = R.qemu
        /\ Q.pc = R.pc /\ Q.down = R.down
        /\ Q.workDir = IF keepWorkDir THEN R.workDir ELSE FALSE

\* C21  shutdown() is idempotent and never throws: every call, whenever it is
\* made, completes normally, and when it completes booted is false, the
\* hypervisor handle is cleared and the child no longer runs, and the work
\* directory is gone unless keepWorkDir was given; a call that is made after
\* an earlier one completed, or that completes after an earlier one did
\* (having been made during its grace wait), leaves the state the earlier one
\* left.
ShutdownIdempotent ==
    \A r \in Runners : \A keepWorkDir \in BOOLEAN :
        LET R == runners[r]
            B == shutdownBegins(R, keepWorkDir)
            E == shutdownEnds(R, keepWorkDir)
        IN /\ B.settled # "rejected"
           /\ B.settled = "resolved" =>
                 ShutDown(B.runner, keepWorkDir) /\ SameAfter(R, B.runner, keepWorkDir)
           /\ R.grace[keepWorkDir] > 0 =>
                 /\ E.settled = "resolved"
                 /\ ShutDown(E.runner, keepWorkDir)
                 /\ SameAfter(R, E.runner, keepWorkDir)
           /\ R.down = "done" => ShutDown(R, TRUE)

\* a booted runner was shut down twice, the second call made during the grace
\* wait of the first: the first has completed and cleared the handle, the
\* second is about to resume
ShutdownIdempotentWitness ==
    \E r \in Runners :
        /\ runners[r].pc = "booted" /\ runners[r].calls = 2
        /\ runners[r].down = "done" /\ ~runners[r].qemuProc
        /\ runners[r].grace[FALSE] = 1

\* C22  stop() twice leaves no process behind: whenever a stop() call returns,
\* be it the call that resumes from its await or a call that finds the pool
\* stopping and returns at once (made while the first still awaits the
\* runners' shutdowns, or after it), the shutdowns that stop() awaits have
\* completed and the registry is empty.
StopTwiceDrains ==
    /\ stopPc = "awaiting" => Registry(stopSettle(Pool)) = {}
    /\ stopping => stopPc = "idle" /\ Registry(Pool) = {}

\* the runs of the server that can answer an acquire request: the handler
\* itself, and a boot that succeeds while acquire requests are queued
AcquireRuns ==
    {handleAcquire(Server, req, id) : req \in AcquireReqs, id \in Ids}
    \cup {Deliver([Server EXCEPT !.pool = bootSucceeded(@, i)], 1, ids) :
             i \in boots, ids \in IdChoices}

\* the successful acquire responses of a run
AcquiredIn(S) ==
    SelectSeq(S.res, LAMBDA r : r.status = 200 /\ "vmId" \in DOMAIN r.data)

\* C23  A VM identifier is returned once: every successful acquire returns an
\* identifier that no earlier acquire returned and that is not in the active
\* registry, so that registering it overwrites no entry of a VM that is still
\* checked out.
IdReturnedOnce ==
    \A S \in AcquireRuns :
        \A n \in 1..Len(AcquiredIn(S)) :
            LET id == AcquiredIn(S)[n].data.vmId
            IN /\ id \notin issued
               /\ id \notin DOMAIN activeVMs
               /\ \A m \in 1..(n - 1) : AcquiredIn(S)[m].data.vmId # id

\* a run of a handler that answered with status and did nothing else: no
\* command was run, and the registry, the counters and the pool (its target
\* size included) are as they were
Refused(S, status) ==
    /\ Len(S.res) = 1 /\ S.res[1].status = status
    /\ S.ran = <<>>
    /\ S.activeVMs = activeVMs /\ S.metrics = metrics /\ S.pool = Pool

\* the body parses and lacks the field the route requires
LacksCommand(req) ==
    parseBody(req).settled = "resolved"
    /\ parseBody(req).fields.command \in {<<>>, <<"">>}

LacksCommands(req) ==
    /\ parseBody(req).settled = "resolved"
    /\ LET commands == parseBody(req).fields.commands
       IN commands = <<>> \/ ~commands[1].array \/ commands[1].items = <<>>

LacksSize(req) ==
    /\ parseBody(req).settled = "resolved"
    /\ LET size == parseBody(req).fields.size
       IN size = <<>> \/ ~size[1].number \/ size[1].value \notin 0..16

RunsPipeline(req) ==
    parseBody(req).settled = "resolved" /\ ~LacksCommands(req)

CommandsOf(req) == parseBody(req).fields.commands[1].items

StopOnErrorOf(req) ==
    parseBody(req).fields.stopOnError \in {<<>>, <<TRUE>>}

\* the command exits non-zero or meets a transport error
Fails(end) == ~(end.event = "close" /\ ~end.killed /\ end.code = <<0>>)

\* C25  A pipeline runs its commands one after another in the order given.
\* With stopOnError (the default) the response holds the results of exactly
\* the commands up to and including the first that exits non-zero or meets a
\* transport error, with stopped = true, and no later command is executed;
\* when none fails, and whenever stopOnError is false, every command is
\* executed, the response has one result per command and stopped = false.
PipelineSequential ==
    \A id \in DOMAIN activeVMs :
      \A req \in {r \in PipelineReqs : RunsPipeline(r)} :
        \A ends \in EndsFor(req) :
          LET S == handlePipeline(Server, id, req, ends)
              commands == CommandsOf(req)
              failing == {k \in 1..Len(commands) : Fails(ends[k])}
              last == IF StopOnErrorOf(req) /\ failing # {}
                      THEN CHOOSE k \in failing : \A j \in failing : k <= j
                      ELSE Len(commands)
              data == S.res[1].data
          IN /\ Len(S.res) = 1 /\ S.res[1].status = 200
             /\ S.ran = SubSeq(commands, 1, last)
             /\ Len(data.results) = last
             /\ \A k \in 1..last : data.results[k].command = commands[k]
             /\ data.stopped = (StopOnErrorOf(req) /\ failing # {})
             /\ data.stopped => data.stoppedAt = commands[last]

\* a VM is checked out and the server takes requests: a pipeline of two
\* commands whose first is killed by its timeout stops there, and the same
\* pipeline with stopOnError = false runs both
PipelineSequentialWitness ==
    \E id \in DOMAIN activeVMs :
        LET two == [NoFields EXCEPT
                       !.commands = <<[array |-> TRUE, items |-> <<1, 2>>]>>]
            ends == <<[event |-> "close", code |-> <<>>, killed |-> TRUE],
                      [event |-> "close", code |-> <<0>>, killed |-> FALSE]>>
            S == handlePipeline(Server, id, Req(9, TRUE, two), ends)
            T == handlePipeline(Server, id,
                     Req(9, TRUE, [two EXCEPT !.stopOnError = <<FALSE>>]), ends)
        IN /\ Listening /\ Handled < MaxRequests
           /\ S.ran = <<1>> /\ S.res[1].data.stopped
           /\ T.ran = <<1, 2>> /\ ~T.res[1].data.stopped

\* the requests of a set whose body exceeds the cap
Oversize(reqs) == {r \in reqs : r.bytes > MAX_BODY_BYTES}

\* C26  A request whose body exceeds the cap of 1 MiB is answered 413 on every
\* route that reads a body (acquire, run, pipeline, resize), and has no effect
\* on the registry, the pool or the counters.
TooLargeIs413 ==
    Listening =>
        /\ \A req \in Oversize(AcquireReqs) : \A id \in Ids :
              Refused(handleAcquire(Server, req, id), 413)
        /\ \A id \in DOMAIN activeVMs :
              /\ \A req \in Oversize(RunReqs) : \A end \in RunEnds :
                    Refused(handleRun(Server, id, req, end), 413)
              /\ \A req \in Oversize(PipelineReqs) : \A ends \in EndsFor(req) :
                    Refused(handlePipeline(Server, id, req, ends), 413)
        /\ \A req \in Oversize(ResizeReqs) :
              Refused(handleResize(Server, req), 413)

\* C27  When the pool hands out no VM before the acquire timeout, the acquire
\* request is answered 503, no entry is added to the active registry,
\* acquire_total is unchanged and acquire_errors_total grows by exactly one.
AcquireTimeoutIs503 ==
    \A t \in Queue : \A ids \in IdChoices :
        LET S == Deliver([Server EXCEPT !.pool = acquireTimeout(@, t)], 1, ids)
        IN /\ Len(S.res) = 1 /\ S.res[1].status = 503
           /\ S.activeVMs = activeVMs
           /\ S.metrics = [metrics EXCEPT !.acquireErrors = @ + 1]

\* the one warm VM is checked out; a second acquire request has queued and
\* has timed out (stop() has not been called, so nothing else fails an
\* acquire), and a third is queued
AcquireTimeoutIs503Witness ==
    /\ Listening /\ srvPc = "idle"
    /\ metrics.acquireErrors = 1 /\ metrics.acquireTotal = 1
    /\ Cardinality(DOMAIN activeVMs) = 1
    /\ tickets = 2 /\ Len(waiters) = 1

\* the run requests that pass validation
RunsCommand(req) == parseBody(req).settled = "resolved" /\ ~LacksCommand(req)

\* the command ran in the guest and ended there with an exit code
RanInGuest(end) == end.event = "close" /\ ~end.killed

\* C28  Guest failure is always 200: a run request on a registered VM is
\* answered 200 with the result, exit code included, whenever the command ran
\* in the guest, whatever the code, and is counted in run_total; only a
\* transport error is answered otherwise, and only it is counted in
\* run_errors_total.
GuestFailureIs200 ==
    \A id \in DOMAIN activeVMs :
      \A req \in {r \in RunReqs : RunsCommand(r)} : \A end \in RunEnds :
        LET S == handleRun(Server, id, req, end)
        IN /\ Len(S.res) = 1
           /\ RanInGuest(end) =>
                 /\ S.res[1].status = 200 /\ S.res[1].data.code = end.code
                 /\ S.metrics = [metrics EXCEPT !.runTotal = @ + 1]
           /\ S.res[1].status # 200 =>
                 /\ ~RanInGuest(end)
                 /\ S.metrics = [metrics EXCEPT !.runErrors = @ + 1]
           /\ S.metrics.runErrors # metrics.runErrors => ~RanInGuest(end)

\* a VM is checked out and the server takes requests: a command that exits 1
\* in the guest is answered 200 with code 1, one that ssh could not be
\* started for is answered 500
GuestFailureIs200Witness ==
    \E id \in DOMAIN activeVMs :
        LET req == Req(9, TRUE, [NoFields EXCEPT !.command = <<"ls">>])
            S == handleRun(Server, id, req,
                     [event |-> "close", code |-> <<1>>, killed |-> FALSE])
            T == handleRun(Server, id, req,
                     [event |-> "error", code |-> <<>>, killed |-> FALSE])
        IN /\ Listening /\ Handled < MaxRequests
           /\ metrics.runTotal > 0
           /\ S.res[1].status = 200 /\ S.res[1].data.code = <<1>>
           /\ T.res[1].status = 500

\* the error counters GET /metrics exposes
ErrorCount(m) == m.runErrors + m.acquireErrors

\* C29  Metrics increment on every acquire, run and release error: each
\* failed acquire (the pool rejects at once, or after the request queued),
\* each run that ends in a transport error (a single run, or a step of a
\* pipeline) and each failed release increases an exposed error counter, and
\* no counter ever decreases.
ErrorsCounted ==
    /\ [](/\ \A S \in AcquireRuns \cup
                  {Deliver([Server EXCEPT !.pool = acquireTimeout(@, t)], 1, ids) :
                      t \in Queue, ids \in IdChoices} :
               LET failed == SelectSeq(S.res, LAMBDA r : r.status = 503)
               IN ErrorCount(S.metrics) = ErrorCount(metrics) + Len(failed)
          /\ \A id \in DOMAIN activeVMs :
               /\ \A req \in {r \in RunReqs : RunsCommand(r)} :
                     \A end \in RunEnds :
                        ~RanInGuest(end) =>
                            ErrorCount(handleRun(Server, id, req, end).metrics)
                                > ErrorCount(metrics)
               /\ \A req \in {r \in PipelineReqs : RunsPipeline(r)} :
                     \A ends \in EndsFor(req) :
                        LET S == handlePipeline(Server, id, req, ends)
                            errors == {k \in 1..Len(S.ran) : ~RanInGuest(ends[k])}
                        IN ErrorCount(S.metrics) =
                              ErrorCount(metrics) + Cardinality(errors)
               /\ LET S == handleRelease(Server, id)
                  IN S.res[1].status # 200 =>
                        ErrorCount(S.metrics) > ErrorCount(metrics))
    /\ [][\A c \in DOMAIN metrics : metrics'[c] >= metrics[c]]_vars

\* the runners of the active registry
ActiveRunners(S) == {S.activeVMs[id].vm : id \in DOMAIN S.activeVMs}

\* the runners acquire requests were answered with
HandedOut == {i \in Slots : slots[i].handouts > 0}

\* C30  ControlServer.stop() proceeds in order.  It invokes shutdown() on
\* every runner of the active registry and does not begin the pool's stop
\* before these shutdowns have completed; it does not close the listener
\* before the pool's stop has completed; and when it returns the registry is
\* empty and shutdown() has been invoked on every runner ever handed out
\* through the server, one acquired by a request served while stop() was in
\* progress included.
StopInOrder ==
    /\ srvPc = "idle" =>
          LET S == serverStop(Server)
          IN /\ ActiveRunners(Server) \subseteq DownedBy(S)
             /\ ActiveRunners(Server) # {} =>
                   /\ S.srvPc = "shutdowns" /\ ~S.pool.stopping
                   /\ S.pool = [Pool EXCEPT !.events = S.pool.events]
    /\ srvPc = "shutdowns" =>
          /\ ~stopping /\ stopPc = "idle"
          /\ LET S == serverStopPool(Server)
             IN /\ S.pool.stopping /\ S.activeVMs = <<>>
                /\ ActiveRunners(Server) \subseteq downed \cup DownedBy(S)
    /\ srvPc = "pool" => stopping /\ stopPc = "awaiting" /\ Listening
    /\ srvPc = "stopped" =>
          /\ stopping /\ stopPc = "idle" /\ ~started /\ Registry(Pool) = {}
          /\ activeVMs = <<>>
          /\ HandedOut \subseteq downed

\* stop() awaits the shutdown of the runner that was checked out when it was
\* called; meanwhile an acquire request was served with a second runner, which
\* is in the registry and has not been shut down
StopInOrderWitness ==
    /\ srvPc = "shutdowns"
    /\ \E id \in DOMAIN activeVMs : activeVMs[id].vm \in downed
    /\ \E id \in DOMAIN activeVMs :
          activeVMs[id].vm \notin downed /\ slots[activeVMs[id].vm].state = ACTIVE

\* what POST /pool/resize does at once when it grows the pool to the size of
\* req: the target is that size and the answer is 200 with newSize
GrowAnswers ==
    \A req \in GrowReqs :
        (serving /\ SizeOf(req) > targetSize) =>
            LET S == handleResize(Server, req)
            IN /\ S.pool.targetSize = SizeOf(req)
               /\ S.res = <<[status |-> 200, data |-> [newSize |-> SizeOf(req)]]>>

\* C31 as stated: a POST /pool/resize that grows the pool sets the target to
\* N and answers 200 with newSize = N, and with boots succeeding and no
\* further acquire or release the pool eventually has warm + booting >= N.
GrowReaches ==
    /\ []GrowAnswers
    /\ quiet ~> (WarmPlusBooting >= targetSize)

\* C31  Pool resize (grow): a POST /pool/resize with a valid size N above the
\* current target sets the target to N and answers 200 with newSize = N; on
\* a pool that is not stopping it kicks a refill so that, with boots
\* succeeding and no further acquire, release, resize or stop, the pool
\* eventually has warm + booting >= min(N, maxSize - active): the hard cap
\* still limits the boots.
GrowReachesWithinCap ==
    /\ []GrowAnswers
    /\ quiet ~> (WarmPlusBooting >= Min(targetSize,
                                        maxSize - stats(Pool).active))
    /\ []QuietTimersCanFire

\* the pool has grown from 1 to 2 and holds a warm slot and the slot the
\* resize booted, with no refill pending
GrowReachesWitness ==
    /\ quiet
    /\ targetSize = 2
    /\ Len(slots) = 2
    /\ stats(Pool).warm = 1
    /\ stats(Pool).booting = 1
    /\ ~refillTimer /\ retryTimers = 0

\* the runners the pool created whose hypervisor is live
LiveHypervisors == {i \in 1..Len(hypervisors) : hypervisors[i] # GONE}

\* C32  The hard cap limits concurrent VMs: the number of pool-created
\* runners whose hypervisor is live (boot started and shutdown not yet
\* completed, released runners still shutting down included) never exceeds
\* maxSize.
LiveWithinCap == Cardinality(LiveHypervisors) <= maxSize

\* C33  Once stop() has been called and start() has not been called again
\* (_stopping is set and stays set), no slot is created, no slot becomes
\* warm and no runner is handed out: a refill or retry timer that fires
\* starts nothing, and a boot that completes has its runner shut down and
\* its slot made dead and removed, serving no waiter.
StoppedStartsNothing ==
    /\ [](stopping =>
            /\ waiters = <<>>
            /\ refill(Pool) = Pool
            /\ \A i \in boots :
                  LET P == bootSucceeded(Pool, i)
                  IN /\ EventsOf(P, "shutdown")
                          = <<[type |-> "shutdown", runner |-> i, awaited |-> TRUE]>>
                     /\ P.slots[i].state = DEAD
                     /\ i \notin Registry(P)
                     /\ EventsOf(P, "acquired") = <<>>)
    /\ [][(stopping /\ stopping') =>
             /\ Len(slots') = Len(slots)
             /\ \A i \in 1..Len(slots) :
                   /\ slots'[i].state = WARM => slots[i].state = WARM
                   /\ slots'[i].handouts = slots[i].handouts]_vars

\* stop() has completed with a boot still under way and a retry timer
\* pending: both happen after the stop
StoppedStartsNothingWitness ==
    /\ stopping /\ ~started /\ stopPc = "idle"
    /\ boots # {}
    /\ retryTimers > 0

\* the port of R began to accept connections within the budget
OpenedInTime(R) == R.openedAt # <<>> /\ R.openedAt[1] <= R.sshTimeout

\* what C34 says of boot() whenever the port opens: booted is set only after
\* a connection to the port and, after it, an answered probe; at most 20
\* probes are made; and after 20 unanswered probes boot has rejected with
\* booted false
ProbedBeforeBooted(R) ==
    /\ R.booted => (R.connected /\ R.answered /\ R.pc = "booted")
    /\ R.answered => R.connected
    /\ R.probes <= SSH_ATTEMPTS
    /\ (R.probes = SSH_ATTEMPTS /\ ~R.answered) => (R.pc = "failed" /\ ~R.booted)
    /\ R.pc = "failed" => ~R.booted

\* C34 as stated: two-phase readiness, at most 20 probes, and if the port does
\* not open within the SSH-wait budget or all 20 probes fail, boot rejects and
\* booted stays false.
TwoPhaseReadiness ==
    \A r \in Runners :
        /\ ProbedBeforeBooted(runners[r])
        /\ ~OpenedInTime(runners[r]) =>
              (runners[r].pc # "booted" /\ ~runners[r].booted)

\* C34  Two-phase readiness: boot sets booted = true only after a TCP
\* connection to the allocated port has succeeded and, after that, an echo
\* SSH_OK probe has returned SSH_OK; the probe is attempted at most 20 times;
\* if all 20 probes fail, or if every connection attempt fails, boot rejects
\* and booted stays false.  Attempts are made every 2 s and the first one that
\* fails after the budget has elapsed rejects, so the last attempt is made up
\* to one retry interval after the budget: a port that opens by then still
\* lets boot go on, and one that opens later does not.
TwoPhaseReadinessWithSlack ==
    \A r \in Runners :
        LET R == runners[r]
        IN /\ ProbedBeforeBooted(R)
           /\ R.connected =>
                 (R.openedAt # <<>> /\ R.openedAt[1] <= R.sshTimeout + RETRY_MS)
           /\ R.pc = "waitForPort" => R.nextTry <= R.sshTimeout + RETRY_MS
           /\ (R.pc = "waitForPort" /\ R.now > R.sshTimeout /\ R.now = R.nextTry
                 /\ ~(R.open /\ R.qemu = "running")) =>
                 (attempt(R).pc = "failed" /\ ~attempt(R).booted)

\* a boot has succeeded on its twentieth probe, behind a port that opened
\* after the budget had elapsed and before the last connection attempt
TwoPhaseReadinessWitness ==
    \E r \in Runners :
        /\ runners[r].openedAt # <<>> /\ ~OpenedInTime(runners[r])
        /\ runners[r].connected
        /\ runners[r].probes = SSH_ATTEMPTS
        /\ runners[r].booted

\* the sizes below the target that POST /pool/resize is asked for
ShrinkReqs == {SizeReq(v) : v \in {w \in 0..2 : w < targetSize}}

\* C35  Pool resize (shrink): a valid POST /pool/resize to a size below the
\* current target changes only the target size: no slot is evicted or shut
\* down by it, and a refill that runs afterwards starts no boot while
\* warm + booting is at or above the new target; in every step of the pool a
\* slot is created only when warm + booting was below the target.
ShrinkKeepsSlots ==
    /\ [](serving =>
            \A req \in ShrinkReqs :
               LET S == handleResize(Server, req)
               IN /\ S.pool = [Pool EXCEPT !.targetSize = SizeOf(req)]
                  /\ S.activeVMs = activeVMs /\ S.metrics = metrics
                  /\ S.res = <<[status |-> 200,
                                data |-> [newSize |-> SizeOf(req)]]>>
                  /\ (stats(S.pool).warm + stats(S.pool).booting >= SizeOf(req))
                        => refill(S.pool) = S.pool)
    /\ [][Len(slots') > Len(slots) => WarmPlusBooting < targetSize']_vars

\* the target was lowered to 0 with a warm and a booting slot in the
\* registry: both are still there and no refill is pending
ShrinkKeepsSlotsWitness ==
    /\ targetSize = 0
    /\ stats(Pool).warm = 1
    /\ stats(Pool).booting = 1
    /\ ~refillTimer /\ ~stopping

\* the number of bytes of an image before its part p
RECURSIVE Offset(_, _)
Offset(I, p) == IF p <= 1 THEN 0 ELSE Offset(I, p - 1) + I.parts[p - 1]

\* the part of an image that holds the root directory; the files follow it
RootDirPart == 6

\* C36  Seed image layout: for every list of files given to buildISO the
\* root directory occupies exactly sector 20, the directory record of each
\* file names the sector at which the bytes of the file start in the image
\* (from sector 21 on, consecutive and non-overlapping), and the length of
\* the image is the recorded volume size times 2048.
SeedLayout ==
    image # <<>> =>
        LET I == image[1]
            n == Len(I.records)
        IN /\ Offset(I, RootDirPart) = DOT_LBA * SECTOR_SIZE
           /\ I.parts[RootDirPart] = SECTOR_SIZE
           /\ \A k \in 1..n :
                 /\ I.records[k].extent * SECTOR_SIZE = Offset(I, RootDirPart + k)
                 /\ I.records[k].extent >= DATA_START_SECTOR
                 /\ k < n => I.records[k + 1].extent
                               = I.records[k].extent + Sectors(I.records[k].dataLength)
           /\ Offset(I, Len(I.parts) + 1) = I.volumeSpaceSize * SECTOR_SIZE
           /\ Offset(I, Len(I.parts) + 1) % SECTOR_SIZE = 0

\* C37  No command after release: once POST /vms/:id/release has removed an
\* identifier from the registry, no run or pipeline request for it sends a
\* command to its runner, be it a run request that was still receiving its
\* body or a pipeline between two commands: every command that went to a
\* guest was given to a runner that had not been released.
NoCommandAfterRelease == \A d \in dispatched : ~d.released

\* C38  No queue jumping: between two events of the pool, a non-empty waiter
\* queue implies that no slot is warm.
NoQueueJumping ==
    waiters # <<>> =>
        /\ InState(Pool, WARM) = {}
        /\ EventsOf(acquire(Pool), "acquired") = <<>>

\* callers wait behind a slot that was handed out, and a boot is under way
NoQueueJumpingWitness ==
    /\ waiters # <<>>
    /\ InState(Pool, ACTIVE) # {}
    /\ InState(Pool, BOOTING) # {}
    /\ \E i \in InState(Pool, ACTIVE) : slots[i].handouts > 0

\* C39  No leaked runner: whenever the pool removes a slot from its registry
\* (release, stale eviction, boot failure, a boot completing during stop, stop
\* itself), shutdown has been invoked on the slot's runner at or before the
\* removal: every slot that has left the registry has had its runner shut
\* down.
NoLeakedRunner ==
    \A i \in 1..Len(slots) : ~slots[i].inReg => i \in downed

\* the one start() call of OnceSpec has rejected: it was made, it is no longer
\* pending, and it did not resolve
StartRejected == nStarts = 1 /\ startWaits = <<>> /\ ~serving

\* C40  A failed start leaves the pool inert: once start() has rejected, and
\* with no further start() call, the pool starts no further boot, no slot
\* becomes warm, and acquire() is rejected rather than queued.
FailedStartInert ==
    /\ [](StartRejected =>
            /\ EventsOf(acquire(Pool), "queued") = <<>>
            /\ EventsOf(acquire(Pool), "rejected") # <<>>)
    /\ [][StartRejected =>
            /\ Len(slots') = Len(slots)
            /\ \A i \in 1..Len(slots) :
                  (slots'[i].inReg /\ slots'[i].state = WARM)
                      => (slots[i].inReg /\ slots[i].state = WARM)]_vars

====
